---- MODULE Spec2Model ----
(***************************************************************************)
(* A model of bcash's wagered two-player game protocol:                    *)
(*   - the session state machine of gamechannel.cpp (challenge and session *)
(*     tables, the four public operations, the refund and settlement       *)
(*     builders), specification Spec, SpecChain while the chain grows, and *)
(*     SpecDeliver with the history of the messages delivered, and         *)
(*     SpecThreads with two threads inside the operations;                 *)
(*   - the sending operations of gamechannel.cpp around the lock           *)
(*     cs_mapGames, specification SpecSend;                                *)
(*   - the poker engine of poker.cpp (CPokerGame::ProcessAction and the    *)
(*     shuffle, deal and draw it calls), specification SpecPoker, SpecDraw *)
(*     down to the end of the deck, and its hand evaluation (EvaluateHand, *)
(*     ScoreHand), specification SpecHands;                                *)
(*   - the chess rules engine of chess.cpp, specification SpecChess, also  *)
(*     used to replay a session's move log the way ui_tui.cpp does, and    *)
(*     SpecCastle over the moves that revoke castling rights.              *)
(***************************************************************************)
EXTENDS Integers, Sequences, FiniteSets, TLC

VARIABLES
    mapGameChallenges,  \* gamechannel.cpp:9   hash -> CGameChallenge
    mapGameSessions,    \* gamechannel.cpp:10  hash -> CGameSession
    nBestHeight,        \* the chain height AcceptGameAccept reads (line 84)
    call,               \* the last public operation: its name, its return value and
                        \* the fields of its message that the properties read
    consumed,           \* history: hashes of the challenges AcceptGameAccept erased
    firstHeight,        \* history: session hash -> nBestHeight when first created
    game,               \* poker.h:81-122  one CPokerGame
    pcall,              \* the last CPokerGame::ProcessAction call and its return value
    chessBoard,         \* chess.h:39-89  one CChessBoard
    mcall,              \* the last CChessBoard::MakeMove call and its return value
    cardsA, cardsB,     \* poker.h:70     the cards[5] of two CPokerHand
    evalA, evalB,       \* what GetRank and GetScore returned for them
    csHolder,           \* gamechannel.cpp:11  who is inside CRITICAL_BLOCK(cs_mapGames)
    sendPc,             \* where the user-interface thread stands in SendGame*
    sendArg,            \* the locals SendGame* carries to its PushMessage
    lastPush,           \* the last PushMessage, and whether cs_mapGames was held
    applied,            \* history: the messages a public operation has applied
    delivery,           \* the message of the last public operation, whether it
                        \* was applied before, and what the intake answered
    nIntake,            \* how many transactions ProcessGameSettle handed to
                        \* CTransaction::AcceptTransaction (line 156)
    thr,                \* the message threads: where each stands in the public
                        \* operation it runs, with its message and its locals
    base                \* history: the two tables when the threads began

vars == <<mapGameChallenges, mapGameSessions, nBestHeight, call, consumed,
          firstHeight, game, pcall, chessBoard, mcall,
          cardsA, cardsB, evalA, evalB, csHolder, sendPc, sendArg, lastPush,
          applied, delivery, nIntake, thr, base>>

chanVars == <<mapGameChallenges, mapGameSessions, nBestHeight, call, consumed,
              firstHeight>>

pokerVars == <<game, pcall>>

chessVars == <<chessBoard, mcall>>

handVars == <<cardsA, cardsB, evalA, evalB>>

sendVars == <<csHolder, sendPc, sendArg, lastPush>>

trackVars == <<applied, delivery, nIntake>>

threadVars == <<thr, base>>

\* what each part of the model leaves alone
exceptChan == <<pokerVars, chessVars, handVars, sendVars, trackVars, threadVars>>
exceptPoker == <<chanVars, chessVars, handVars, sendVars, trackVars, threadVars>>
exceptChess == <<chanVars, pokerVars, handVars, sendVars, trackVars, threadVars>>
exceptHands == <<chanVars, pokerVars, chessVars, sendVars, trackVars, threadVars>>
exceptSend == <<pokerVars, chessVars, handVars, trackVars, threadVars>>
exceptDeliver == <<pokerVars, chessVars, handVars, sendVars, threadVars>>
exceptThreads == <<pokerVars, chessVars, handVars, trackVars, sendPc, sendArg, lastPush,
                   nBestHeight, call, consumed, firstHeight>>

(***************************************************************************)
(* Bounds of the model.                                                    *)
(***************************************************************************)
\* a chess game is played for at most this many half-moves
MaxPly == 9
\* the chain grows by at most this many blocks (SpecChain)
MaxHeight == 1
\* at most this many moves are logged while the chain grows (SpecChain)
MaxChainMoves == 1
\* at most this many moves are logged, over all sessions
MaxMoves == 2
\* at most this many sessions are held at once
MaxSessions == 2
\* at most this many different challenges are stored in one run
MaxChallenges == 1
\* at most this many transactions are handed to the intake (SpecDeliver)
MaxIntake == 2
\* the pot of the poker game grows to at most MaxPot
MaxPot == 2
\* at most this many cards are drawn after the deal
MaxDrawn == 2

(***************************************************************************)
(* Program constants.                                                      *)
(***************************************************************************)
GAME_CHESS == 1
GAME_POKER == 2

GSTATE_OPEN == 0
GSTATE_FUNDED == 1
GSTATE_PLAYING == 2
GSTATE_FINISHED == 3
GSTATE_SETTLED == 4
GSTATE_EXPIRED == 5

\* nBestHeight + 144 in AcceptGameAccept
REFUND_DELAY == 144

(***************************************************************************)
(* Keys, signatures and hashes.  A digest is represented by the tuple of   *)
(* the serialized fields (a collision-free hash); a signature by the pair  *)
(* of the signing key and the digest signed.                               *)
(***************************************************************************)
Keys == {"kA", "kB", "kC"}

\* an empty vchPubKey
NoKey == ""

\* an empty vchSig
NoSig == <<>>

KeySign(key, digest) == <<key, digest>>

\* CKey::SetPubKey fails on an empty key; CKey::Verify accepts exactly the
\* signature made with that key over that digest
KeyVerify(vchPubKey, digest, vchSig) ==
    /\ vchPubKey # NoKey
    /\ vchSig = KeySign(vchPubKey, digest)

\* ---- CGameChallenge ----
ChallengeGetSigHash(c) ==
    <<c.nVersion, c.nGameType, c.nBetAmount, c.nTime, c.vchPubKey>>

ChallengeGetHash(c) ==
    <<c.nVersion, c.nGameType, c.nBetAmount, c.nTime, c.vchPubKey, c.vchSig>>

ChallengeCheckSignature(c) ==
    KeyVerify(c.vchPubKey, ChallengeGetSigHash(c), c.vchSig)

\* ---- CGameAccept ----
AcceptGetSigHash(a) == <<a.nVersion, a.hashChallenge, a.vchPubKey>>

AcceptCheckSignature(a) ==
    KeyVerify(a.vchPubKey, AcceptGetSigHash(a), a.vchSig)

\* ---- CGameMove ----
MoveGetSigHash(m) ==
    <<m.nVersion, m.hashSession, m.nMoveNumber, m.strMove, m.vchPayload, m.vchPubKey>>

MoveCheckSignature(m) ==
    KeyVerify(m.vchPubKey, MoveGetSigHash(m), m.vchSig)

\* ---- CGameSession ----
SessionGetHash(s) == <<s.hashChallenge, s.vchPubKeyA, s.vchPubKeyB>>


(***************************************************************************)
(* Keyed tables (std::map): insert or overwrite, erase.                    *)
(***************************************************************************)
EmptyMap == [h \in {} |-> {}]

MapPut(m, k, v) == [h \in (DOMAIN m) \cup {k} |-> IF h = k THEN v ELSE m[h]]

MapErase(m, k) == [h \in (DOMAIN m) \ {k} |-> m[h]]

(***************************************************************************)
(* Transactions.  A transaction is (vin, vout, nLockTime); an input names  *)
(* the output it spends, an output carries a value and a script.           *)
(***************************************************************************)
\* An int64 (nBetAmount, nValue) is held as four 16-bit limbs, most
\* significant first, in two's complement, so that the full width is kept.
LIMB == 65536

\* the int64 of a small integer
I64(n) ==
    IF n >= 0 THEN <<0, 0, 0, n>> ELSE <<LIMB - 1, LIMB - 1, LIMB - 1, LIMB + n>>

\* x < 0
I64IsNegative(x) == x[1] >= LIMB \div 2

\* x * 2, the bits carried out of the top limb lost.  A product outside
\* the int64 range is undefined behaviour; the low 64 bits are what the
\* multiplication leaves in the register, and no property reads more from
\* such a product than that it is not the exact one.
I64Double(x) ==
    LET d4 == 2 * x[4]
        d3 == 2 * x[3] + (d4 \div LIMB)
        d2 == 2 * x[2] + (d3 \div LIMB)
        d1 == 2 * x[1] + (d2 \div LIMB)
    IN  <<d1 % LIMB, d2 % LIMB, d3 % LIMB, d4 % LIMB>>

\* CreateRefundTransaction(session, txRefund, fPlayerA)
CreateRefundTransaction(session, fPlayerA) ==
    LET vchPubKey == IF fPlayerA THEN session.vchPubKeyA ELSE session.vchPubKeyB
    IN  [vin       |-> << [prevout |-> <<session.hashFundingTx, 0>>] >>,
         nLockTime |-> session.nLockTime,
         vout      |-> << [nValue       |-> session.nBetAmount,
                           scriptPubKey |-> <<vchPubKey, "OP_CHECKSIG">>] >>]

\* CreateSettlementTransaction(session, txSettle, vchPubKeyWinner)
CreateSettlementTransaction(session, vchPubKeyWinner) ==
    [vin       |-> << [prevout |-> <<session.hashFundingTx, 0>>] >>,
     nLockTime |-> 0,
     vout      |-> << [nValue       |-> I64Double(session.nBetAmount),
                       scriptPubKey |-> <<vchPubKeyWinner, "OP_CHECKSIG">>] >>]

\* CTransaction::CheckTransaction: a transaction with no input or no output,
\* or with a negative output value, is not well-formed
CheckTransaction(tx) ==
    /\ Len(tx.vin) > 0
    /\ Len(tx.vout) > 0
    /\ \A i \in 1..Len(tx.vout) : ~I64IsNegative(tx.vout[i].nValue)

\* Hash160 of a public key (CGameSettle::hashWinner; 0 = draw)
Hash160(vchPubKey) == <<"h160", vchPubKey>>

\* hashWinner = 0: the game was drawn
NoWinner == <<"h160", NoKey>>

(***************************************************************************)
(* AcceptGameChallenge                                          lines 28-54 *)
(***************************************************************************)
\* the validation of lines 37-47
ChallengeValid(challenge) ==
    /\ ~(challenge.nGameType # GAME_CHESS /\ challenge.nGameType # GAME_POKER)
    /\ ~I64IsNegative(challenge.nBetAmount)
    /\ challenge.vchPubKey # NoKey
    /\ ChallengeCheckSignature(challenge)

\* the return value
AcceptGameChallengeRet(challenge) ==
    /\ ChallengeGetHash(challenge) \notin DOMAIN mapGameChallenges
    /\ ChallengeValid(challenge)

AcceptGameChallenge(challenge) ==
    /\ IF AcceptGameChallengeRet(challenge)
       THEN mapGameChallenges' =
                MapPut(mapGameChallenges, ChallengeGetHash(challenge), challenge)
       ELSE UNCHANGED mapGameChallenges
    /\ call' = [op |-> "AcceptGameChallenge",
                ret |-> AcceptGameChallengeRet(challenge)]
    /\ UNCHANGED <<mapGameSessions, nBestHeight, consumed, firstHeight>>

(***************************************************************************)
(* AcceptGameAccept                                             lines 58-97 *)
(***************************************************************************)
\* an AcceptGameAccept that lets the proposer accept their own challenge
AcceptGameAcceptRet_OwnChallenge(accept) ==
    /\ accept.hashChallenge \in DOMAIN mapGameChallenges
    /\ AcceptCheckSignature(accept)

\* lines 63-74: the challenge is known, the signature verifies, and the
\* acceptor is not the proposer
AcceptGameAcceptRet(accept) ==
    /\ accept.hashChallenge \in DOMAIN mapGameChallenges
    /\ AcceptCheckSignature(accept)
    /\ accept.vchPubKey # mapGameChallenges[accept.hashChallenge].vchPubKey

\* CNode* that points to no peer
NULL == "NULL"

\* lines 77-84: the session built from the challenge and the accept
NewSession(challenge, accept, height) ==
    [nGameType     |-> challenge.nGameType,
     nState        |-> GSTATE_OPEN,
     nBetAmount    |-> challenge.nBetAmount,
     vchPubKeyA    |-> challenge.vchPubKey,
     vchPubKeyB    |-> accept.vchPubKey,
     hashChallenge |-> accept.hashChallenge,
     hashFundingTx |-> 0,
     nLockTime     |-> height + REFUND_DELAY,
     vchGameState  |-> <<>>,
     vMoves        |-> <<>>,
     pnodeOpponent |-> NULL]

AcceptGameAccept(accept) ==
    /\ IF AcceptGameAcceptRet(accept)
       THEN LET session == NewSession(mapGameChallenges[accept.hashChallenge],
                                      accept, nBestHeight)
                hashSession == SessionGetHash(session)
            IN  \* the model holds at most MaxSessions sessions
                /\ Cardinality((DOMAIN mapGameSessions) \cup {hashSession}) <= MaxSessions
                /\ mapGameSessions' = MapPut(mapGameSessions, hashSession, session)
                /\ mapGameChallenges' = MapErase(mapGameChallenges, accept.hashChallenge)
                /\ consumed' = consumed \cup {accept.hashChallenge}
                /\ firstHeight' = IF hashSession \in DOMAIN firstHeight
                                  THEN firstHeight
                                  ELSE MapPut(firstHeight, hashSession, nBestHeight)
       ELSE UNCHANGED <<mapGameSessions, mapGameChallenges, consumed, firstHeight>>
    /\ call' = [op |-> "AcceptGameAccept",
                ret |-> AcceptGameAcceptRet(accept),
                hashChallenge |-> accept.hashChallenge]
    /\ UNCHANGED nBestHeight

(***************************************************************************)
(* ProcessGameMove                                            lines 101-135 *)
(***************************************************************************)
\* a ProcessGameMove that takes a move from any key that signed it
MoveFromPlayer_Anyone(session, move) ==
    move.vchPubKey # NoKey

\* line 115: the move is from one of the two players
MoveFromPlayer(session, move) ==
    ~(move.vchPubKey # session.vchPubKeyA /\ move.vchPubKey # session.vchPubKeyB)

\* a ProcessGameMove that lets a move number run ahead of the log
MoveNumberExpected_AtLeast(session, move) ==
    move.nMoveNumber >= Len(session.vMoves)

\* line 119: the move number is the log length
MoveNumberExpected(session, move) ==
    ~(move.nMoveNumber # Len(session.vMoves))

ProcessGameMoveRet(move) ==
    /\ move.hashSession \in DOMAIN mapGameSessions
    /\ MoveCheckSignature(move)
    /\ MoveFromPlayer(mapGameSessions[move.hashSession], move)
    /\ MoveNumberExpected(mapGameSessions[move.hashSession], move)

\* lines 124-128: append the move, and enter PLAYING from FUNDED or OPEN
StoreMove(session, move) ==
    [session EXCEPT
        !.vMoves = Append(@, move),
        !.nState = IF session.nState = GSTATE_FUNDED \/ session.nState = GSTATE_OPEN
                   THEN GSTATE_PLAYING ELSE @]

\* a ProcessGameMove that logs the move of a player before it compares the
\* move number
ProcessGameMove_LogsBeforeNumberCheck(move) ==
    /\ IF /\ move.hashSession \in DOMAIN mapGameSessions
          /\ MoveCheckSignature(move)
          /\ MoveFromPlayer(mapGameSessions[move.hashSession], move)
       THEN mapGameSessions' =
                [mapGameSessions EXCEPT
                    ![move.hashSession] = StoreMove(@, move)]
       ELSE UNCHANGED mapGameSessions
    /\ call' = [op |-> "ProcessGameMove",
                ret |-> ProcessGameMoveRet(move),
                hashSession |-> move.hashSession,
                nMoveNumber |-> move.nMoveNumber]
    /\ UNCHANGED <<mapGameChallenges, nBestHeight, consumed, firstHeight>>

ProcessGameMove(move) ==
    /\ IF ProcessGameMoveRet(move)
       THEN mapGameSessions' =
                [mapGameSessions EXCEPT
                    ![move.hashSession] = StoreMove(@, move)]
       ELSE UNCHANGED mapGameSessions
    /\ call' = [op |-> "ProcessGameMove",
                ret |-> ProcessGameMoveRet(move),
                hashSession |-> move.hashSession,
                nMoveNumber |-> move.nMoveNumber]
    /\ UNCHANGED <<mapGameChallenges, nBestHeight, consumed, firstHeight>>

(***************************************************************************)
(* ProcessGameSettle                                          lines 139-171 *)
(***************************************************************************)
\* the outcomes of CTransaction::AcceptTransaction(true, &fMissingInputs)
IntakeOutcomes == {"accepted", "missing inputs", "rejected"}

\* lines 156-162: a transaction the intake refuses for missing inputs is
\* only reported; any other refusal fails the call
IntakePasses(outcome) ==
    IF outcome # "accepted"
    THEN IF outcome = "missing inputs" THEN TRUE ELSE FALSE
    ELSE TRUE

ProcessGameSettleRet(settle, outcome) ==
    /\ settle.hashSession \in DOMAIN mapGameSessions
    /\ CheckTransaction(settle.txSettle)
    /\ IntakePasses(outcome)

\* line 164
MarkSettled(session) == [session EXCEPT !.nState = GSTATE_SETTLED]

ProcessGameSettle(settle, outcome) ==
    /\ IF ProcessGameSettleRet(settle, outcome)
       THEN mapGameSessions' =
                [mapGameSessions EXCEPT ![settle.hashSession] = MarkSettled(@)]
       ELSE UNCHANGED mapGameSessions
    /\ call' = [op |-> "ProcessGameSettle",
                ret |-> ProcessGameSettleRet(settle, outcome),
                hashSession |-> settle.hashSession,
                hashWinner |-> settle.hashWinner]
    /\ UNCHANGED <<mapGameChallenges, nBestHeight, consumed, firstHeight>>

(***************************************************************************)
(* The chain grows: nBestHeight is the height of the best block.           *)
(***************************************************************************)
NewBlock ==
    /\ nBestHeight < MaxHeight
    /\ nBestHeight' = nBestHeight + 1
    /\ call' = [op |-> "NewBlock", ret |-> TRUE]
    /\ UNCHANGED <<mapGameChallenges, mapGameSessions, consumed, firstHeight>>


(***************************************************************************)
(* The messages the network delivers.                                      *)
(***************************************************************************)
\* CGameChallenge::Sign
SignedChallenge(nGameType, nBetAmount, vchPubKey, signer) ==
    LET c == [nVersion |-> 1, nGameType |-> nGameType, nBetAmount |-> nBetAmount,
              nTime |-> 0, vchPubKey |-> vchPubKey, vchSig |-> NoSig]
    IN  [c EXCEPT !.vchSig = KeySign(signer, ChallengeGetSigHash(c))]

\* CGameAccept::Sign
SignedAccept(hashChallenge, vchPubKey, signer) ==
    LET a == [nVersion |-> 1, hashChallenge |-> hashChallenge,
              vchPubKey |-> vchPubKey, vchSig |-> NoSig]
    IN  [a EXCEPT !.vchSig = KeySign(signer, AcceptGetSigHash(a))]

\* CGameMove::Sign
SignedMove(hashSession, nMoveNumber, strMove, vchPubKey, signer) ==
    LET m == [nVersion |-> 1, hashSession |-> hashSession,
              nMoveNumber |-> nMoveNumber, strMove |-> strMove,
              vchPayload |-> <<>>, vchPubKey |-> vchPubKey, vchSig |-> NoSig]
    IN  [m EXCEPT !.vchSig = KeySign(signer, MoveGetSigHash(m))]

\* the two challenges of proposer kA that pass validation: a chess game for
\* a stake of 1 and a poker game for a stake of 0
GoodChallenges ==
    { SignedChallenge(GAME_CHESS, I64(1), "kA", "kA"),
      SignedChallenge(GAME_POKER, I64(0), "kA", "kA") }

\* challenges that fail one check each: unknown game type, negative stake,
\* empty key, a signature by another key, no signature
BadChallenges ==
    { SignedChallenge(0, I64(1), "kA", "kA"),
      SignedChallenge(GAME_CHESS, I64(-1), "kA", "kA"),
      SignedChallenge(GAME_CHESS, I64(1), NoKey, "kA"),
      SignedChallenge(GAME_CHESS, I64(1), "kA", "kB"),
      [SignedChallenge(GAME_CHESS, I64(1), "kA", "kA") EXCEPT !.vchSig = NoSig] }

ChallengeInputs == GoodChallenges \cup BadChallenges

\* accepts of a good challenge, or of a challenge no table ever holds, by
\* each key (the proposer included); one of them signed by another key
AcceptInputs ==
    { SignedAccept(ChallengeGetHash(c), k, k) :
        c \in GoodChallenges \cup {SignedChallenge(GAME_CHESS, I64(-1), "kA", "kA")},
        k \in Keys }
    \cup { SignedAccept(ChallengeGetHash(c), "kB", "kC") : c \in GoodChallenges }

\* move texts: a legal first move of chess, one that is well-formed but
\* illegal in every position the bounded logs reach, and a malformed one
MoveTexts == { <<"e","2","e","4">>, <<"e","2","e","5">>, <<"e","2","x">> }

\* a session hash no table ever holds (nobody accepts their own challenge)
UnknownSession ==
    <<ChallengeGetHash(SignedChallenge(GAME_CHESS, I64(1), "kA", "kA")), "kA", "kA">>

\* moves for session h, each signed by its sender: the legal first move
\* under every number up to the bound and by each key; every text under
\* the expected number by each key; and, for the expected number, one
\* unsigned move and one whose signature was made for another move number
MoveInputs(h) ==
    LET len == IF h \in DOMAIN mapGameSessions
               THEN Len(mapGameSessions[h].vMoves) ELSE 0
    IN  { SignedMove(h, n, <<"e","2","e","4">>, k, k) : n \in 0..MaxMoves, k \in Keys }
        \cup { SignedMove(h, len, t, k, k) : t \in MoveTexts, k \in Keys }
        \cup { [SignedMove(h, len, <<"e","2","e","4">>, "kA", "kA")
                    EXCEPT !.vchSig = NoSig] }
        \cup { [SignedMove(h, len + 1, <<"e","2","e","4">>, "kA", "kA")
                    EXCEPT !.nMoveNumber = len] }

\* settlements for session h: the transaction CreateSettlementTransaction
\* builds, declaring seat A the winner or the game drawn; or a transaction
\* with neither input nor output
SettleInputs(h) ==
    LET s == IF h \in DOMAIN mapGameSessions
             THEN mapGameSessions[h]
             ELSE NewSession(SignedChallenge(GAME_CHESS, I64(1), "kA", "kA"),
                             SignedAccept(UnknownSession[1], "kA", "kA"), 0)
    IN  { [nVersion |-> 1, hashSession |-> h, hashWinner |-> w,
           txSettle |-> CreateSettlementTransaction(s, s.vchPubKeyA)] :
              w \in {Hash160(s.vchPubKeyA), NoWinner} }
        \cup { [nVersion |-> 1, hashSession |-> h, hashWinner |-> Hash160(s.vchPubKeyA),
                txSettle |-> [vin |-> <<>>, nLockTime |-> 0, vout |-> <<>>]] }

(***************************************************************************)
(* The five-card-draw engine (poker.h, poker.cpp).                         *)
(***************************************************************************)
\* enum PokerPhase
POKER_ANTE == 0
POKER_COMMIT == 1
POKER_REVEAL == 2
POKER_DEAL == 3
POKER_BET1 == 4
POKER_DRAW == 5
POKER_BET2 == 6
POKER_SHOWDOWN == 7
POKER_DONE == 8

\* enum PokerAction
PACT_FOLD == 0
PACT_CHECK == 1
PACT_CALL == 2
PACT_RAISE == 3
PACT_DISCARD == 4
PACT_COMMIT_SEED == 5
PACT_REVEAL_SEED == 6
PACT_SHOW_HAND == 7

\* the deck has 52 cards, a hand 5
DECK_SIZE == 52
HAND_SIZE == 5

\* Hash(begin, end): the hash values of the model are the numbers below
\* 251, and Hash is a bijection of them that maps no seed the model offers
\* to itself
Hash(x) == (x * 37 + 11) % 251

\* Hash(a.begin(), a.end(), b.begin(), b.end()): the hash of a || b
HashConcat(a, b) == Hash((a * 256 + b) % 251)

\* the 32-bit word memcpy reads at byte offset 4 * k of a hash
HashWord(h, k) == ((h * 8 + k) * 7919 + 13) % 65521

\* uint256::SetHex: the value of the longest prefix of hexadecimal digits
HexDigits ==
    [c \in {"0","1","2","3","4","5","6","7","8","9","a","b","c","d","e","f"} |->
        CASE c = "0" -> 0 [] c = "1" -> 1 [] c = "2" -> 2 [] c = "3" -> 3
          [] c = "4" -> 4 [] c = "5" -> 5 [] c = "6" -> 6 [] c = "7" -> 7
          [] c = "8" -> 8 [] c = "9" -> 9 [] c = "a" -> 10 [] c = "b" -> 11
          [] c = "c" -> 12 [] c = "d" -> 13 [] c = "e" -> 14 [] c = "f" -> 15]

RECURSIVE SetHexFrom(_, _, _)
SetHexFrom(str, i, acc) ==
    IF i > Len(str) \/ str[i] \notin DOMAIN HexDigits THEN acc
    ELSE SetHexFrom(str, i + 1, acc * 16 + HexDigits[str[i]])

SetHex(str) == SetHexFrom(str, 1, 0)

\* CPokerGame::CPokerGame
CPokerGame ==
    [nPhase |-> POKER_ANTE, nPot |-> 0, nCurrentBet |-> 0, nDealerSeat |-> 0,
     hashSeedA |-> 0, hashSeedB |-> 0, seedA |-> 0, seedB |-> 0,
     fSeedARevealed |-> FALSE, fSeedBRevealed |-> FALSE,
     deck |-> [i \in 0..(DECK_SIZE - 1) |-> i],
     handA |-> [cards |-> [i \in 0..(HAND_SIZE - 1) |-> 0], nCount |-> 0],
     handB |-> [cards |-> [i \in 0..(HAND_SIZE - 1) |-> 0], nCount |-> 0],
     vDiscardA |-> [i \in 0..(HAND_SIZE - 1) |-> FALSE],
     vDiscardB |-> [i \in 0..(HAND_SIZE - 1) |-> FALSE],
     nDrawCardIndex |-> 10,
     fPlayerAFolded |-> FALSE, fPlayerBFolded |-> FALSE,
     fPlayerAActed |-> FALSE, fPlayerBActed |-> FALSE]

\* the Fisher-Yates loop of ShuffleDeck, from index i down to 1
RECURSIVE FisherYates(_, _, _)
FisherYates(deck, hashEntropy, i) ==
    IF i <= 0 THEN deck
    ELSE LET h == IF i % 8 = 0 THEN Hash(hashEntropy) ELSE hashEntropy
             nRandom == HashWord(h, i % 8)
             j == nRandom % (i + 1)
         IN  FisherYates([deck EXCEPT ![i] = deck[j], ![j] = deck[i]], h, i - 1)

\* CPokerGame::ShuffleDeck
ShuffleDeck(g) ==
    [g EXCEPT !.deck = FisherYates([i \in 0..(DECK_SIZE - 1) |-> i],
                                   HashConcat(g.seedA, g.seedB), DECK_SIZE - 1)]

\* CPokerGame::DealCards
DealCards(g) ==
    [g EXCEPT !.handA = [cards |-> [i \in 0..(HAND_SIZE - 1) |-> g.deck[i]],
                         nCount |-> HAND_SIZE],
              !.handB = [cards |-> [i \in 0..(HAND_SIZE - 1) |-> g.deck[i + HAND_SIZE]],
                         nCount |-> HAND_SIZE],
              !.nDrawCardIndex = 10]

\* a replacement loop that hands out the card under the cursor without
\* moving the cursor
RECURSIVE DrawLoop_SameCard(_, _, _, _, _)
DrawLoop_SameCard(cards, vDiscardFlags, deck, nDrawCardIndex, i) ==
    IF i >= HAND_SIZE THEN [cards |-> cards, nDrawCardIndex |-> nDrawCardIndex]
    ELSE IF vDiscardFlags[i] /\ nDrawCardIndex < DECK_SIZE
         THEN DrawLoop_SameCard([cards EXCEPT ![i] = deck[nDrawCardIndex]],
                                vDiscardFlags, deck, nDrawCardIndex, i + 1)
         ELSE DrawLoop_SameCard(cards, vDiscardFlags, deck, nDrawCardIndex, i + 1)

\* the replacement loop of DrawCards, from hand index i on: the cards and
\* the deck cursor it leaves
RECURSIVE DrawLoop(_, _, _, _, _)
DrawLoop(cards, vDiscardFlags, deck, nDrawCardIndex, i) ==
    IF i >= HAND_SIZE THEN [cards |-> cards, nDrawCardIndex |-> nDrawCardIndex]
    ELSE IF vDiscardFlags[i] /\ nDrawCardIndex < DECK_SIZE
         THEN DrawLoop([cards EXCEPT ![i] = deck[nDrawCardIndex]], vDiscardFlags,
                       deck, nDrawCardIndex + 1, i + 1)
         ELSE DrawLoop(cards, vDiscardFlags, deck, nDrawCardIndex, i + 1)

\* CPokerGame::DrawCards
DrawCards(g, fPlayerA, vDiscard) ==
    LET vDiscardFlags ==
            [i \in 0..(HAND_SIZE - 1) |->
                \E n \in 1..Len(vDiscard) : vDiscard[n] = i]
        hand == IF fPlayerA THEN g.handA ELSE g.handB
        drawn == DrawLoop(hand.cards, vDiscardFlags, g.deck, g.nDrawCardIndex, 0)
        newHand == [hand EXCEPT !.cards = drawn.cards]
    IN  IF fPlayerA
        THEN [g EXCEPT !.vDiscardA = vDiscardFlags, !.handA = newHand,
                       !.nDrawCardIndex = drawn.nDrawCardIndex]
        ELSE [g EXCEPT !.vDiscardB = vDiscardFlags, !.handB = newHand,
                       !.nDrawCardIndex = drawn.nDrawCardIndex]

\* the decimal digits operator>> reads
DecDigits == {"0","1","2","3","4","5","6","7","8","9"}

\* the digits of one number, from position i on: its value and the
\* position after it
RECURSIVE ReadDigits(_, _, _)
ReadDigits(str, i, acc) ==
    IF i > Len(str) \/ str[i] \notin DecDigits
    THEN [value |-> acc, next |-> i]
    ELSE ReadDigits(str, i + 1, acc * 10 + HexDigits[str[i]])

\* the loop "while (iss >> idx)" of PACT_DISCARD over the text with its
\* commas turned to blanks: the indices in 0..4 it keeps, in order
RECURSIVE ReadDiscards(_, _, _)
ReadDiscards(str, i, vDiscard) ==
    IF i > Len(str) THEN vDiscard
    ELSE IF str[i] \in {",", " "} THEN ReadDiscards(str, i + 1, vDiscard)
    ELSE LET fSign == str[i] \in {"-", "+"}
             first == IF fSign THEN i + 1 ELSE i
             r == ReadDigits(str, first, 0)
             idx == IF fSign /\ str[i] = "-" THEN 0 - r.value ELSE r.value
         IN  IF r.next = first THEN vDiscard    \* no number here: the loop ends
             ELSE ReadDiscards(str, r.next,
                               IF idx >= 0 /\ idx < HAND_SIZE
                               THEN Append(vDiscard, idx) ELSE vDiscard)

\* the two results of ProcessAction: false with the game as it was, or
\* true with the game the case built
Rejected(g) == [ret |-> FALSE, game |-> g]
Accepted(g) == [ret |-> TRUE, game |-> g]

\* a commit that opens the reveal phase once either seat has committed
BothCommitted_Either(g) == g.hashSeedA # 0 \/ g.hashSeedB # 0

BothCommitted(g) == g.hashSeedA # 0 /\ g.hashSeedB # 0

\* a commit that is taken in every phase
CommitSeed_AnyPhase(g, fPlayerA, strExtra) ==
    LET hashCommit == SetHex(strExtra)
        g1 == IF fPlayerA THEN [g EXCEPT !.hashSeedA = hashCommit]
                          ELSE [g EXCEPT !.hashSeedB = hashCommit]
    IN  IF hashCommit = 0 THEN Rejected(g)
        ELSE IF BothCommitted(g1) THEN Accepted([g1 EXCEPT !.nPhase = POKER_REVEAL])
        ELSE Accepted(g1)

\* case PACT_COMMIT_SEED
CommitSeed(g, fPlayerA, strExtra) ==
    LET hashCommit == SetHex(strExtra)
        g1 == IF fPlayerA THEN [g EXCEPT !.hashSeedA = hashCommit]
                          ELSE [g EXCEPT !.hashSeedB = hashCommit]
    IN  IF g.nPhase # POKER_COMMIT THEN Rejected(g)
        ELSE IF hashCommit = 0 THEN Rejected(g)
        ELSE IF BothCommitted(g1) THEN Accepted([g1 EXCEPT !.nPhase = POKER_REVEAL])
        ELSE Accepted(g1)

\* a reveal that is compared with the commitment of the other seat
SeedOpens_OtherSeat(g, fPlayerA, seed) ==
    Hash(seed) = (IF fPlayerA THEN g.hashSeedB ELSE g.hashSeedA)

\* hashCheck == hashSeedA (or hashSeedB) in PACT_REVEAL_SEED
SeedOpens(g, fPlayerA, seed) ==
    Hash(seed) = (IF fPlayerA THEN g.hashSeedA ELSE g.hashSeedB)

\* case PACT_REVEAL_SEED
RevealSeed(g, fPlayerA, strExtra) ==
    LET seed == SetHex(strExtra)
        g1 == IF fPlayerA THEN [g EXCEPT !.seedA = seed, !.fSeedARevealed = TRUE]
                          ELSE [g EXCEPT !.seedB = seed, !.fSeedBRevealed = TRUE]
    IN  IF g.nPhase # POKER_REVEAL THEN Rejected(g)
        ELSE IF ~SeedOpens(g, fPlayerA, seed) THEN Rejected(g)
        ELSE IF g1.fSeedARevealed /\ g1.fSeedBRevealed
             THEN Accepted([DealCards(ShuffleDeck(g1)) EXCEPT
                                !.nPhase = POKER_BET1,
                                !.fPlayerAActed = FALSE, !.fPlayerBActed = FALSE])
             ELSE Accepted(g1)

InBettingRound(g) == ~(g.nPhase # POKER_BET1 /\ g.nPhase # POKER_BET2)

\* a fold that marks the seat and leaves the betting round open
Fold_StaysInRound(g, fPlayerA) ==
    IF ~InBettingRound(g) THEN Rejected(g)
    ELSE Accepted(IF fPlayerA THEN [g EXCEPT !.fPlayerAFolded = TRUE]
                              ELSE [g EXCEPT !.fPlayerBFolded = TRUE])

\* case PACT_FOLD
Fold(g, fPlayerA) ==
    IF ~InBettingRound(g) THEN Rejected(g)
    ELSE Accepted([(IF fPlayerA THEN [g EXCEPT !.fPlayerAFolded = TRUE]
                                ELSE [g EXCEPT !.fPlayerBFolded = TRUE])
                      EXCEPT !.nPhase = POKER_DONE])

\* a second betting round that falls back to the draw once both have acted
AdvanceIfBothActed_BackToDraw(g) ==
    IF g.fPlayerAActed /\ g.fPlayerBActed
    THEN [g EXCEPT !.nPhase = POKER_DRAW,
                   !.fPlayerAActed = FALSE, !.fPlayerBActed = FALSE]
    ELSE g

\* "If both have acted, advance phase" of PACT_CHECK and PACT_CALL
AdvanceIfBothActed(g) ==
    IF g.fPlayerAActed /\ g.fPlayerBActed
    THEN IF g.nPhase = POKER_BET1
         THEN [g EXCEPT !.nPhase = POKER_DRAW,
                        !.fPlayerAActed = FALSE, !.fPlayerBActed = FALSE]
         ELSE [g EXCEPT !.nPhase = POKER_SHOWDOWN]
    ELSE g

SetActed(g, fPlayerA) ==
    IF fPlayerA THEN [g EXCEPT !.fPlayerAActed = TRUE]
                ELSE [g EXCEPT !.fPlayerBActed = TRUE]

\* a check that does not look at the outstanding bet
Check_IgnoresBet(g, fPlayerA) ==
    IF ~InBettingRound(g) THEN Rejected(g)
    ELSE Accepted(AdvanceIfBothActed(SetActed(g, fPlayerA)))

\* case PACT_CHECK
Check(g, fPlayerA) ==
    IF ~InBettingRound(g) THEN Rejected(g)
    ELSE IF g.nCurrentBet > 0 THEN Rejected(g)
    ELSE Accepted(AdvanceIfBothActed(SetActed(g, fPlayerA)))

\* case PACT_CALL
Call(g, fPlayerA) ==
    IF ~InBettingRound(g) THEN Rejected(g)
    ELSE IF g.nCurrentBet <= 0 THEN Rejected(g)
    ELSE Accepted(AdvanceIfBothActed(
             [SetActed([g EXCEPT !.nPot = g.nPot + g.nCurrentBet], fPlayerA)
                  EXCEPT !.nCurrentBet = 0]))

\* a raise that leaves the acted flag of the other seat as it was
Raise_KeepsOtherActed(g, fPlayerA, nAmount) ==
    IF ~InBettingRound(g) THEN Rejected(g)
    ELSE IF nAmount <= 0 THEN Rejected(g)
    ELSE Accepted(SetActed([g EXCEPT !.nPot = g.nPot + g.nCurrentBet + nAmount,
                                     !.nCurrentBet = nAmount], fPlayerA))

\* case PACT_RAISE
Raise(g, fPlayerA, nAmount) ==
    IF ~InBettingRound(g) THEN Rejected(g)
    ELSE IF nAmount <= 0 THEN Rejected(g)
    ELSE Accepted([g EXCEPT !.nPot = g.nPot + g.nCurrentBet + nAmount,
                            !.nCurrentBet = nAmount,
                            !.fPlayerAActed = fPlayerA,
                            !.fPlayerBActed = ~fPlayerA])

\* case PACT_DISCARD
Discard(g, fPlayerA, strExtra) ==
    LET g1 == SetActed(DrawCards(g, fPlayerA, ReadDiscards(strExtra, 1, <<>>)),
                       fPlayerA)
    IN  IF g.nPhase # POKER_DRAW THEN Rejected(g)
        ELSE IF g1.fPlayerAActed /\ g1.fPlayerBActed
             THEN Accepted([g1 EXCEPT !.nPhase = POKER_BET2, !.nCurrentBet = 0,
                                      !.fPlayerAActed = FALSE,
                                      !.fPlayerBActed = FALSE])
             ELSE Accepted(g1)

\* a show of the hand that is also taken once the game is done
ShowHand_AlsoWhenDone(g, fPlayerA) ==
    LET g1 == SetActed(g, fPlayerA)
    IN  IF g.nPhase # POKER_SHOWDOWN /\ g.nPhase # POKER_DONE THEN Rejected(g)
        ELSE IF g1.fPlayerAActed /\ g1.fPlayerBActed
             THEN Accepted([g1 EXCEPT !.nPhase = POKER_DONE])
             ELSE Accepted(g1)

\* case PACT_SHOW_HAND
ShowHand(g, fPlayerA) ==
    LET g1 == SetActed(g, fPlayerA)
    IN  IF g.nPhase # POKER_SHOWDOWN THEN Rejected(g)
        ELSE IF g1.fPlayerAActed /\ g1.fPlayerBActed
             THEN Accepted([g1 EXCEPT !.nPhase = POKER_DONE])
             ELSE Accepted(g1)

\* CPokerGame::ProcessAction: the return value and the game it leaves
ProcessActionResult(g, fPlayerA, action, nAmount, strExtra) ==
    CASE action = PACT_COMMIT_SEED -> CommitSeed(g, fPlayerA, strExtra)
      [] action = PACT_REVEAL_SEED -> RevealSeed(g, fPlayerA, strExtra)
      [] action = PACT_FOLD -> Fold(g, fPlayerA)
      [] action = PACT_CHECK -> Check(g, fPlayerA)
      [] action = PACT_CALL -> Call(g, fPlayerA)
      [] action = PACT_RAISE -> Raise(g, fPlayerA, nAmount)
      [] action = PACT_DISCARD -> Discard(g, fPlayerA, strExtra)
      [] action = PACT_SHOW_HAND -> ShowHand(g, fPlayerA)
      [] OTHER -> Rejected(g)

\* one call of ProcessAction on the game
ProcessAction(fPlayerA, action, nAmount, strExtra) ==
    LET r == ProcessActionResult(game, fPlayerA, action, nAmount, strExtra)
    IN  /\ game' = r.game
        /\ pcall' = [op |-> "ProcessAction", fPlayerA |-> fPlayerA,
                     action |-> action, nAmount |-> nAmount,
                     strExtra |-> strExtra, ret |-> r.ret]

\* before the first call
NoPokerCall ==
    [op |-> "none", fPlayerA |-> TRUE, action |-> PACT_FOLD, nAmount |-> 0,
     strExtra |-> <<>>, ret |-> TRUE]

(***************************************************************************)
(* The chess engine (chess.h, chess.cpp).  A board is a record of the      *)
(* fields of CChessBoard; squares are 0..63, a1 = 0, h8 = 63.              *)
(***************************************************************************)
PIECE_EMPTY == 0
PIECE_PAWN == 1
PIECE_KNIGHT == 2
PIECE_BISHOP == 3
PIECE_ROOK == 4
PIECE_QUEEN == 5
PIECE_KING == 6
COLOR_WHITE == 0
COLOR_BLACK == 8

PieceType(p) == p % 8
PieceColor(p) == IF p % 16 >= 8 THEN COLOR_BLACK ELSE COLOR_WHITE
IsWhite(p) == p # PIECE_EMPTY /\ PieceColor(p) = COLOR_WHITE

FileOf(sq) == sq % 8
RankOf(sq) == sq \div 8
MakeSquare(file, rank) == rank * 8 + file
Abs(x) == IF x < 0 THEN 0 - x ELSE x
OnBoard(f, r) == f >= 0 /\ f <= 7 /\ r >= 0 /\ r <= 7

\* CChessBoard::SetInitialPosition
SetInitialPosition ==
    [board |->
        [sq \in 0..63 |->
            CASE sq \in {0, 7} -> COLOR_WHITE + PIECE_ROOK
              [] sq \in {1, 6} -> COLOR_WHITE + PIECE_KNIGHT
              [] sq \in {2, 5} -> COLOR_WHITE + PIECE_BISHOP
              [] sq = 3 -> COLOR_WHITE + PIECE_QUEEN
              [] sq = 4 -> COLOR_WHITE + PIECE_KING
              [] sq \in 8..15 -> COLOR_WHITE + PIECE_PAWN
              [] sq \in 48..55 -> COLOR_BLACK + PIECE_PAWN
              [] sq \in {56, 63} -> COLOR_BLACK + PIECE_ROOK
              [] sq \in {57, 62} -> COLOR_BLACK + PIECE_KNIGHT
              [] sq \in {58, 61} -> COLOR_BLACK + PIECE_BISHOP
              [] sq = 59 -> COLOR_BLACK + PIECE_QUEEN
              [] sq = 60 -> COLOR_BLACK + PIECE_KING
              [] OTHER -> PIECE_EMPTY],
     fWhiteToMove |-> TRUE,
     fCastleWK |-> TRUE, fCastleWQ |-> TRUE,
     fCastleBK |-> TRUE, fCastleBQ |-> TRUE,
     nEnPassantSquare |-> -1, nHalfMoveClock |-> 0, nFullMoveNumber |-> 1]

\* c - 'a' and c - '1' where that difference is in 0..7; -1 stands for
\* every difference outside 0..7
FileChars == <<"a","b","c","d","e","f","g","h">>
RankChars == <<"1","2","3","4","5","6","7","8">>
CharOffset(chars, c) ==
    IF \E i \in 1..8 : chars[i] = c
    THEN (CHOOSE i \in 1..8 : chars[i] = c) - 1
    ELSE -1

\* CChessBoard::SquareFromString
SquareFromString(sq) ==
    IF Len(sq) < 2 THEN -1
    ELSE LET file == CharOffset(FileChars, sq[1])
             rank == CharOffset(RankChars, sq[2])
         IN  IF file < 0 \/ file > 7 \/ rank < 0 \/ rank > 7 THEN -1
             ELSE MakeSquare(file, rank)

\* CChessBoard::SquareToString
SquareToString(sq) ==
    IF sq < 0 \/ sq > 63 THEN <<"?", "?">>
    ELSE <<FileChars[FileOf(sq) + 1], RankChars[RankOf(sq) + 1]>>

\* CChessBoard::FindKing
FindKing(b, white) ==
    LET target == (IF white THEN COLOR_WHITE ELSE COLOR_BLACK) + PIECE_KING
    IN  IF \E i \in 0..63 : b.board[i] = target
        THEN CHOOSE i \in 0..63 :
                 /\ b.board[i] = target
                 /\ \A j \in 0..(i - 1) : b.board[j] # target
        ELSE -1

\* the first piece met from (f, r) on in steps of (sf, sr); PIECE_EMPTY
\* when the edge of the board comes first
RECURSIVE FirstPiece(_, _, _, _, _)
FirstPiece(board, f, r, sf, sr) ==
    IF ~OnBoard(f, r) THEN PIECE_EMPTY
    ELSE IF board[MakeSquare(f, r)] # PIECE_EMPTY THEN board[MakeSquare(f, r)]
    ELSE FirstPiece(board, f + sf, r + sr, sf, sr)

knightOffsets == {-17, -15, -10, -6, 6, 10, 15, 17}
rookDirs == { <<0, 1>>, <<0, -1>>, <<1, 0>>, <<-1, 0>> }
bishopDirs == { <<1, 1>>, <<1, -1>>, <<-1, 1>>, <<-1, -1>> }

\* CChessBoard::IsSquareAttacked
IsSquareAttacked(b, sq, byWhite) ==
    LET color == IF byWhite THEN COLOR_WHITE ELSE COLOR_BLACK
        f == FileOf(sq)
        r == RankOf(sq)
        SliderOn(dirs, types) ==
            \E d \in dirs :
                LET p == FirstPiece(b.board, f + d[1], r + d[2], d[1], d[2])
                IN  p # PIECE_EMPTY /\ PieceColor(p) = color /\ PieceType(p) \in types
    IN  \/ \E off \in knightOffsets :
              LET from == sq + off IN
              /\ from >= 0 /\ from <= 63
              /\ LET df == Abs(FileOf(from) - f)
                     dr == Abs(RankOf(from) - r)
                 IN  (df = 1 /\ dr = 2) \/ (df = 2 /\ dr = 1)
              /\ b.board[from] = color + PIECE_KNIGHT
        \/ /\ byWhite
           /\ r > 0
           /\ \/ f > 0 /\ b.board[MakeSquare(f - 1, r - 1)] = COLOR_WHITE + PIECE_PAWN
              \/ f < 7 /\ b.board[MakeSquare(f + 1, r - 1)] = COLOR_WHITE + PIECE_PAWN
        \/ /\ ~byWhite
           /\ r < 7
           /\ \/ f > 0 /\ b.board[MakeSquare(f - 1, r + 1)] = COLOR_BLACK + PIECE_PAWN
              \/ f < 7 /\ b.board[MakeSquare(f + 1, r + 1)] = COLOR_BLACK + PIECE_PAWN
        \/ \E dr \in -1..1, df \in -1..1 :
              /\ ~(dr = 0 /\ df = 0)
              /\ OnBoard(f + df, r + dr)
              /\ b.board[MakeSquare(f + df, r + dr)] = color + PIECE_KING
        \/ SliderOn(rookDirs, {PIECE_ROOK, PIECE_QUEEN})
        \/ SliderOn(bishopDirs, {PIECE_BISHOP, PIECE_QUEEN})

\* CChessBoard::IsCheck
IsCheck(b) ==
    LET kingSq == FindKing(b, b.fWhiteToMove)
    IN  IF kingSq < 0 THEN FALSE ELSE IsSquareAttacked(b, kingSq, ~b.fWhiteToMove)

\* CChessBoard::DoMove
DoMove(b, from, to, promoType) ==
    LET piece == b.board[from]
        type == PieceType(piece)
        white == IsWhite(piece)
        color == IF white THEN COLOR_WHITE ELSE COLOR_BLACK
        fEnPassant == type = PIECE_PAWN /\ to = b.nEnPassantSquare
        isCapture == b.board[to] # PIECE_EMPTY \/ fEnPassant
        isPawnMove == type = PIECE_PAWN
        board1 == IF fEnPassant
                  THEN [b.board EXCEPT ![MakeSquare(FileOf(to), RankOf(from))] = PIECE_EMPTY]
                  ELSE b.board
        fCastle == type = PIECE_KING /\ Abs(FileOf(to) - FileOf(from)) = 2
        rookFrom == MakeSquare(IF FileOf(to) = 6 THEN 7 ELSE 0, RankOf(from))
        rookTo == MakeSquare(IF FileOf(to) = 6 THEN 5 ELSE 3, RankOf(from))
        board2 == IF fCastle
                  THEN [[board1 EXCEPT ![rookTo] = board1[rookFrom]]
                            EXCEPT ![rookFrom] = PIECE_EMPTY]
                  ELSE board1
        board3 == [[board2 EXCEPT ![to] = piece] EXCEPT ![from] = PIECE_EMPTY]
        board4 == IF type = PIECE_PAWN /\ (RankOf(to) = 0 \/ RankOf(to) = 7)
                  THEN IF promoType >= PIECE_KNIGHT /\ promoType <= PIECE_QUEEN
                       THEN [board3 EXCEPT ![to] = color + promoType]
                       ELSE [board3 EXCEPT ![to] = color + PIECE_QUEEN]
                  ELSE board3
    IN  [board |-> board4,
         fWhiteToMove |-> ~b.fWhiteToMove,
         fCastleWK |-> b.fCastleWK /\ ~(type = PIECE_KING /\ white)
                          /\ ~(type = PIECE_ROOK /\ from = 7) /\ to # 7,
         fCastleWQ |-> b.fCastleWQ /\ ~(type = PIECE_KING /\ white)
                          /\ ~(type = PIECE_ROOK /\ from = 0) /\ to # 0,
         fCastleBK |-> b.fCastleBK /\ ~(type = PIECE_KING /\ ~white)
                          /\ ~(type = PIECE_ROOK /\ from = 63) /\ to # 63,
         fCastleBQ |-> b.fCastleBQ /\ ~(type = PIECE_KING /\ ~white)
                          /\ ~(type = PIECE_ROOK /\ from = 56) /\ to # 56,
         nEnPassantSquare |->
             IF type = PIECE_PAWN /\ Abs(RankOf(to) - RankOf(from)) = 2
             THEN MakeSquare(FileOf(from), (RankOf(from) + RankOf(to)) \div 2)
             ELSE -1,
         nHalfMoveClock |-> IF isCapture \/ isPawnMove THEN 0 ELSE b.nHalfMoveClock + 1,
         nFullMoveNumber |-> IF ~white THEN b.nFullMoveNumber + 1 ELSE b.nFullMoveNumber]

\* the loop "while (cf != tf || cr != tr)" of the sliding pieces: every
\* square from (cf, cr) up to, not including, (tf, tr) is empty
RECURSIVE PathClear(_, _, _, _, _, _, _)
PathClear(board, cf, cr, tf, tr, sf, sr) ==
    IF ~(cf # tf \/ cr # tr) THEN TRUE
    ELSE IF board[MakeSquare(cf, cr)] # PIECE_EMPTY THEN FALSE
    ELSE PathClear(board, cf + sf, cr + sr, tf, tr, sf, sr)

Sign(d) == IF d = 0 THEN 0 ELSE IF d > 0 THEN 1 ELSE -1

\* case PIECE_PAWN of IsLegalMoveInternal
PawnMoveOk(b, from, to, promoType) ==
    LET white == IsWhite(b.board[from])
        target == b.board[to]
        ff == FileOf(from)
        fr == RankOf(from)
        df == FileOf(to) - ff
        dr == RankOf(to) - fr
        dir == IF white THEN 1 ELSE -1
        startRank == IF white THEN 1 ELSE 6
        promoRank == IF white THEN 7 ELSE 0
    IN  /\ IF df = 0
           THEN \/ dr = dir /\ target = PIECE_EMPTY
                \/ /\ dr = 2 * dir
                   /\ fr = startRank
                   /\ target = PIECE_EMPTY
                   /\ b.board[MakeSquare(ff, fr + dir)] = PIECE_EMPTY
           ELSE /\ Abs(df) = 1
                /\ dr = dir
                /\ (target # PIECE_EMPTY \/ to = b.nEnPassantSquare)
        /\ IF RankOf(to) = promoRank
           THEN promoType \in {PIECE_QUEEN, PIECE_ROOK, PIECE_BISHOP, PIECE_KNIGHT}
           ELSE promoType = PIECE_EMPTY

\* a castling rule that does not look at what the opponent attacks
KingMoveOk_IgnoreAttacks(b, from, to) ==
    LET white == IsWhite(b.board[from])
        df == FileOf(to) - FileOf(from)
        dr == RankOf(to) - RankOf(from)
        home == IF white THEN 4 ELSE 60
        Empty(sqs) == \A sq \in sqs : b.board[sq] = PIECE_EMPTY
    IN  IF Abs(df) = 2 /\ dr = 0
        THEN /\ from = home
             /\ RankOf(from) = (IF white THEN 0 ELSE 7)
             /\ IF df = 2
                THEN /\ IF white THEN b.fCastleWK ELSE b.fCastleBK
                     /\ Empty({home + 1, home + 2})
                ELSE /\ IF white THEN b.fCastleWQ ELSE b.fCastleBQ
                     /\ Empty({home - 1, home - 2, home - 3})
        ELSE ~(Abs(df) > 1 \/ Abs(dr) > 1)

\* case PIECE_KING of IsLegalMoveInternal
KingMoveOk(b, from, to) ==
    LET white == IsWhite(b.board[from])
        df == FileOf(to) - FileOf(from)
        dr == RankOf(to) - RankOf(from)
        home == IF white THEN 4 ELSE 60
        Empty(sqs) == \A sq \in sqs : b.board[sq] = PIECE_EMPTY
        Safe(sqs) == \A sq \in sqs : ~IsSquareAttacked(b, sq, ~white)
    IN  IF Abs(df) = 2 /\ dr = 0
        THEN /\ from = home
             /\ RankOf(from) = (IF white THEN 0 ELSE 7)
             /\ IF df = 2
                THEN /\ IF white THEN b.fCastleWK ELSE b.fCastleBK
                     /\ Empty({home + 1, home + 2})
                     /\ Safe({home, home + 1, home + 2})
                ELSE /\ IF white THEN b.fCastleWQ ELSE b.fCastleBQ
                     /\ Empty({home - 1, home - 2, home - 3})
                     /\ Safe({home, home - 1, home - 2})
        ELSE ~(Abs(df) > 1 \/ Abs(dr) > 1)

\* the piece movement rules of IsLegalMoveInternal (its switch)
PieceMoveOk(b, from, to, promoType) ==
    LET type == PieceType(b.board[from])
        ff == FileOf(from)
        fr == RankOf(from)
        tf == FileOf(to)
        tr == RankOf(to)
        df == tf - ff
        dr == tr - fr
        Clear == PathClear(b.board, ff + Sign(df), fr + Sign(dr), tf, tr,
                           Sign(df), Sign(dr))
    IN  CASE type = PIECE_PAWN -> PawnMoveOk(b, from, to, promoType)
          [] type = PIECE_KNIGHT ->
                 (Abs(df) = 1 /\ Abs(dr) = 2) \/ (Abs(df) = 2 /\ Abs(dr) = 1)
          [] type = PIECE_BISHOP -> ~(Abs(df) # Abs(dr) \/ df = 0) /\ Clear
          [] type = PIECE_ROOK -> ~(df # 0 /\ dr # 0) /\ Clear
          [] type = PIECE_QUEEN ->
                 /\ (Abs(df) = Abs(dr) /\ df # 0) \/ (df = 0 \/ dr = 0)
                 /\ ~(df = 0 /\ dr = 0)
                 /\ Clear
          [] type = PIECE_KING -> KingMoveOk(b, from, to)
          [] OTHER -> FALSE

\* a last test that passes every move
KingSafeAfter_Always(b, from, to, promoType) == TRUE

\* the last test of IsLegalMoveInternal: after the move, on a copy, the
\* king of the side that moved is on the board and not attacked
KingSafeAfter(b, from, to, promoType) ==
    LET white == IsWhite(b.board[from])
        tmp == DoMove(b, from, to, promoType)
        kingSq == FindKing(tmp, white)
    IN  kingSq >= 0 /\ ~IsSquareAttacked(tmp, kingSq, ~white)

\* a legality test that stops at the piece movement rules
IsLegalMoveInternal_PseudoLegal(b, from, to, promoType) ==
    /\ ~(from < 0 \/ from > 63 \/ to < 0 \/ to > 63 \/ from = to)
    /\ b.board[from] # PIECE_EMPTY
    /\ IsWhite(b.board[from]) = b.fWhiteToMove
    /\ ~(b.board[to] # PIECE_EMPTY /\ IsWhite(b.board[to]) = IsWhite(b.board[from]))
    /\ PieceMoveOk(b, from, to, promoType)

\* CChessBoard::IsLegalMoveInternal
IsLegalMoveInternal(b, from, to, promoType) ==
    /\ ~(from < 0 \/ from > 63 \/ to < 0 \/ to > 63 \/ from = to)
    /\ b.board[from] # PIECE_EMPTY
    /\ IsWhite(b.board[from]) = b.fWhiteToMove
    /\ ~(b.board[to] # PIECE_EMPTY /\ IsWhite(b.board[to]) = IsWhite(b.board[from]))
    /\ PieceMoveOk(b, from, to, promoType)
    /\ KingSafeAfter(b, from, to, promoType)

\* the promotion letters of ParseMoveString
PromoLetters ==
    [c \in {"q","Q","r","R","b","B","n","N"} |->
        CASE c \in {"q","Q"} -> PIECE_QUEEN
          [] c \in {"r","R"} -> PIECE_ROOK
          [] c \in {"b","B"} -> PIECE_BISHOP
          [] c \in {"n","N"} -> PIECE_KNIGHT]

\* ParseMoveString: whether the text parses, and the squares and the
\* promotion piece it names
ParseMoveString(strMove) ==
    LET from == SquareFromString(SubSeq(strMove, 1, 2))
        to == SquareFromString(SubSeq(strMove, 3, 4))
        bad == [ok |-> FALSE, from |-> -1, to |-> -1, promoType |-> PIECE_EMPTY]
    IN  IF Len(strMove) < 4 \/ Len(strMove) > 5 THEN bad
        ELSE IF from < 0 \/ to < 0 THEN bad
        ELSE IF Len(strMove) = 5
             THEN IF strMove[5] \in DOMAIN PromoLetters
                  THEN [ok |-> TRUE, from |-> from, to |-> to,
                        promoType |-> PromoLetters[strMove[5]]]
                  ELSE bad
             ELSE [ok |-> TRUE, from |-> from, to |-> to, promoType |-> PIECE_EMPTY]

\* "If pawn reaches promotion rank and no promo specified, default to queen"
DefaultPromo(b, m) ==
    IF /\ PieceType(b.board[m.from]) = PIECE_PAWN
       /\ m.promoType = PIECE_EMPTY
       /\ RankOf(m.to) = (IF b.fWhiteToMove THEN 7 ELSE 0)
    THEN PIECE_QUEEN
    ELSE m.promoType

\* CChessBoard::IsValidMove
IsValidMove(b, strMove) ==
    LET m == ParseMoveString(strMove)
    IN  m.ok /\ IsLegalMoveInternal(b, m.from, m.to, DefaultPromo(b, m))

\* a MakeMove that keeps the en-passant target of the move before unless
\* the move sets a new one
MakeMove_KeepsEnPassant(b, strMove) ==
    LET m == ParseMoveString(strMove)
        done == DoMove(b, m.from, m.to, DefaultPromo(b, m))
    IN  IF ~m.ok THEN [ret |-> FALSE, board |-> b]
        ELSE IF ~IsLegalMoveInternal(b, m.from, m.to, DefaultPromo(b, m))
             THEN [ret |-> FALSE, board |-> b]
             ELSE [ret |-> TRUE,
                   board |-> IF done.nEnPassantSquare = -1
                             THEN [done EXCEPT !.nEnPassantSquare = b.nEnPassantSquare]
                             ELSE done]

\* a MakeMove that leaves a castling right in place when the move arrives
\* on the corner of its rook
MakeMove_KeepsRightOfTakenRook(b, strMove) ==
    LET m == ParseMoveString(strMove)
        done == DoMove(b, m.from, m.to, DefaultPromo(b, m))
    IN  IF ~m.ok THEN [ret |-> FALSE, board |-> b]
        ELSE IF ~IsLegalMoveInternal(b, m.from, m.to, DefaultPromo(b, m))
             THEN [ret |-> FALSE, board |-> b]
             ELSE [ret |-> TRUE,
                   board |-> [done EXCEPT
                                 !.fCastleWQ = @ \/ (b.fCastleWQ /\ m.to = 0),
                                 !.fCastleWK = @ \/ (b.fCastleWK /\ m.to = 7),
                                 !.fCastleBQ = @ \/ (b.fCastleBQ /\ m.to = 56),
                                 !.fCastleBK = @ \/ (b.fCastleBK /\ m.to = 63)]]

\* a MakeMove after which the same side is to move again
MakeMove_SameSideAgain(b, strMove) ==
    LET m == ParseMoveString(strMove)
    IN  IF ~m.ok THEN [ret |-> FALSE, board |-> b]
        ELSE IF ~IsLegalMoveInternal(b, m.from, m.to, DefaultPromo(b, m))
             THEN [ret |-> FALSE, board |-> b]
             ELSE [ret |-> TRUE,
                   board |-> [DoMove(b, m.from, m.to, DefaultPromo(b, m))
                                 EXCEPT !.fWhiteToMove = b.fWhiteToMove]]

\* CChessBoard::MakeMove: its return value and the board it leaves
MakeMove(b, strMove) ==
    LET m == ParseMoveString(strMove)
    IN  IF ~m.ok THEN [ret |-> FALSE, board |-> b]
        ELSE IF ~IsLegalMoveInternal(b, m.from, m.to, DefaultPromo(b, m))
             THEN [ret |-> FALSE, board |-> b]
             ELSE [ret |-> TRUE, board |-> DoMove(b, m.from, m.to, DefaultPromo(b, m))]

\* the squares the sliding loops of GetLegalMoves try from (f, r) in steps
\* of (sf, sr): up to the first occupied square, that square included
\* unless a piece of the moving side stands on it
RECURSIVE SlideTargets(_, _, _, _, _, _)
SlideTargets(board, color, f, r, sf, sr) ==
    IF ~OnBoard(f, r) THEN {}
    ELSE LET to == MakeSquare(f, r) IN
         IF board[to] # PIECE_EMPTY /\ PieceColor(board[to]) = color THEN {}
         ELSE IF board[to] # PIECE_EMPTY THEN {to}
         ELSE {to} \cup SlideTargets(board, color, f + sf, r + sr, sf, sr)

knightMoves ==
    { <<-2, -1>>, <<-2, 1>>, <<-1, -2>>, <<-1, 2>>,
      <<1, -2>>, <<1, 2>>, <<2, -1>>, <<2, 1>> }

promos == {PIECE_QUEEN, PIECE_ROOK, PIECE_BISHOP, PIECE_KNIGHT}

\* the moves <<from, to, promoType>> that case PIECE_PAWN of GetLegalMoves
\* tries for the pawn on from
PawnCandidates(b, from) ==
    LET color == IF b.fWhiteToMove THEN COLOR_WHITE ELSE COLOR_BLACK
        ff == FileOf(from)
        fr == RankOf(from)
        dir == IF b.fWhiteToMove THEN 1 ELSE -1
        startRank == IF b.fWhiteToMove THEN 1 ELSE 6
        promoRank == IF b.fWhiteToMove THEN 7 ELSE 0
        WithPromo(to) ==
            IF RankOf(to) = promoRank
            THEN { <<from, to, pt>> : pt \in promos }
            ELSE { <<from, to, PIECE_EMPTY>> }
        to1 == MakeSquare(ff, fr + dir)
        to2 == MakeSquare(ff, fr + 2 * dir)
        fPush == to1 >= 0 /\ to1 < 64 /\ b.board[to1] = PIECE_EMPTY
        pushes ==
            IF fPush
            THEN WithPromo(to1)
                 \cup (IF fr = startRank /\ to2 >= 0 /\ to2 < 64
                          /\ b.board[to2] = PIECE_EMPTY
                       THEN { <<from, to2, PIECE_EMPTY>> } ELSE {})
            ELSE {}
        CaptureOn(side) ==
            IF ~OnBoard(ff + side, fr + dir) THEN {}
            ELSE LET to == MakeSquare(ff + side, fr + dir)
                     canCapture == b.board[to] # PIECE_EMPTY
                                       /\ PieceColor(b.board[to]) # color
                     isEp == to = b.nEnPassantSquare
                 IN  IF canCapture \/ isEp THEN WithPromo(to) ELSE {}
    IN  pushes \cup CaptureOn(-1) \cup CaptureOn(1)

\* the moves GetLegalMoves tries for the piece on from
Candidates(b, from) ==
    LET color == IF b.fWhiteToMove THEN COLOR_WHITE ELSE COLOR_BLACK
        type == PieceType(b.board[from])
        ff == FileOf(from)
        fr == RankOf(from)
        NotOwn(to) == ~(b.board[to] # PIECE_EMPTY /\ PieceColor(b.board[to]) = color)
        Steps(ds) ==
            { <<from, MakeSquare(ff + d[1], fr + d[2]), PIECE_EMPTY>> :
                d \in { e \in ds : /\ OnBoard(ff + e[1], fr + e[2])
                                   /\ NotOwn(MakeSquare(ff + e[1], fr + e[2])) } }
        Slides(ds) ==
            UNION { { <<from, to, PIECE_EMPTY>> :
                        to \in SlideTargets(b.board, color, ff + d[1], fr + d[2],
                                            d[1], d[2]) } : d \in ds }
        castles ==
            IF b.fWhiteToMove /\ from = 4
            THEN { <<4, 6, PIECE_EMPTY>>, <<4, 2, PIECE_EMPTY>> }
            ELSE IF ~b.fWhiteToMove /\ from = 60
                 THEN { <<60, 62, PIECE_EMPTY>>, <<60, 58, PIECE_EMPTY>> }
                 ELSE {}
    IN  CASE type = PIECE_PAWN -> PawnCandidates(b, from)
          [] type = PIECE_KNIGHT -> Steps(knightMoves)
          [] type = PIECE_BISHOP -> Slides(bishopDirs)
          [] type = PIECE_ROOK -> Slides(rookDirs)
          [] type = PIECE_QUEEN -> Slides(rookDirs \cup bishopDirs)
          [] type = PIECE_KING ->
                 Steps((rookDirs \cup bishopDirs)) \cup castles
          [] OTHER -> {}

\* CChessBoard::GetLegalMoves, as the set of moves <<from, to, promoType>>
\* whose text it returns
GetLegalMoves(b) ==
    LET color == IF b.fWhiteToMove THEN COLOR_WHITE ELSE COLOR_BLACK
        own == { from \in 0..63 :
                    ~(b.board[from] = PIECE_EMPTY \/ PieceColor(b.board[from]) # color) }
    IN  UNION { { m \in Candidates(b, from) : IsLegalMoveInternal(b, m[1], m[2], m[3]) } :
                  from \in own }

\* the text GetLegalMoves returns for a move: the two squares, and for a
\* promotion the letter pc[promos[i]]
MoveText(m) ==
    SquareToString(m[1]) \o SquareToString(m[2]) \o
    (CASE m[3] = PIECE_KNIGHT -> <<"n">>
       [] m[3] = PIECE_BISHOP -> <<"b">>
       [] m[3] = PIECE_ROOK -> <<"r">>
       [] m[3] = PIECE_QUEEN -> <<"q">>
       [] OTHER -> <<>>)

\* CChessBoard::IsCheckmate
IsCheckmate(b) == IF ~IsCheck(b) THEN FALSE ELSE GetLegalMoves(b) = {}

\* CChessBoard::IsStalemate
IsStalemate(b) == IF IsCheck(b) THEN FALSE ELSE GetLegalMoves(b) = {}

\* CChessBoard::IsDraw
IsDraw(b) == IsStalemate(b) \/ b.nHalfMoveClock >= 100

\* the loop of DrawChessTab that rebuilds the board of a session: MakeMove
\* on each logged text in turn, from the initial position; ok tells whether
\* every MakeMove returned true, last is the index of the last one that did
RECURSIVE ReplayFrom(_, _, _)
ReplayFrom(vMoves, i, acc) ==
    IF i > Len(vMoves) THEN acc
    ELSE LET r == MakeMove(acc.board, vMoves[i].strMove)
         IN  ReplayFrom(vMoves, i + 1,
                        [board |-> r.board, ok |-> acc.ok /\ r.ret,
                         last |-> IF r.ret THEN i ELSE acc.last])

Replay(vMoves) ==
    ReplayFrom(vMoves, 1, [board |-> SetInitialPosition, ok |-> TRUE, last |-> 0])

(***************************************************************************)
(* Hand evaluation (poker.cpp:39-268).  A card is its nCard in 0..51, a    *)
(* hand the array cards[5].  A uint32_t score is kept as the pair of its   *)
(* bits 28-31 and its bits 0-27; two scores compare as unsigned integers   *)
(* exactly as these pairs compare, first on bits 28-31.                    *)
(***************************************************************************)
HAND_HIGH_CARD == 0
HAND_ONE_PAIR == 1
HAND_TWO_PAIR == 2
HAND_THREE_OF_A_KIND == 3
HAND_STRAIGHT == 4
HAND_FLUSH == 5
HAND_FULL_HOUSE == 6
HAND_FOUR_OF_A_KIND == 7
HAND_STRAIGHT_FLUSH == 8
HAND_ROYAL_FLUSH == 9

GetSuit(nCard) == nCard \div 13
GetRank(nCard) == nCard % 13

\* CPokerHand(): five default cards
CPokerHand == [i \in 1..HAND_SIZE |-> 0]

\* a count that misses the last card of the array
RankCount_SkipsLast(cards) ==
    [r \in 0..12 |-> Cardinality({i \in 1..(HAND_SIZE - 1) : GetRank(cards[i]) = r})]

\* nRankCount and nSuitCount after the counting loop
RankCount(cards) ==
    [r \in 0..12 |-> Cardinality({i \in 1..HAND_SIZE : GetRank(cards[i]) = r})]

SuitCount(cards) ==
    [u \in 0..3 |-> Cardinality({i \in 1..HAND_SIZE : GetSuit(cards[i]) = u})]

\* the test for A-2-3-4-5
IsWheel(nRankCount) ==
    /\ nRankCount[12] # 0 /\ nRankCount[0] # 0 /\ nRankCount[1] # 0
    /\ nRankCount[2] # 0 /\ nRankCount[3] # 0

\* the starts i in 0..8 of five ranks in a row
StraightStarts(nRankCount) ==
    {i \in 0..8 : \A k \in 0..4 : nRankCount[i + k] # 0}

\* EvaluateHand
EvaluateHand(cards) ==
    LET nRankCount == RankCount(cards)
        nSuitCount == SuitCount(cards)
        fFlush == \E u \in 0..3 : nSuitCount[u] = 5
        starts == StraightStarts(nRankCount)
        fStraight == starts # {} \/ IsWheel(nRankCount)
        \* the loop breaks at the first start it finds
        nHighCard == IF IsWheel(nRankCount) THEN 3
                     ELSE IF starts # {}
                          THEN (CHOOSE i \in starts : \A j \in starts : i <= j) + 4
                          ELSE -1
        nPairs == Cardinality({r \in 0..12 : nRankCount[r] = 2})
        nTrips == Cardinality({r \in 0..12 : nRankCount[r] = 3})
        nQuads == Cardinality({r \in 0..12 : nRankCount[r] = 4})
    IN  IF fFlush /\ fStraight /\ nHighCard = 12 THEN HAND_ROYAL_FLUSH
        ELSE IF fFlush /\ fStraight THEN HAND_STRAIGHT_FLUSH
        ELSE IF nQuads = 1 THEN HAND_FOUR_OF_A_KIND
        ELSE IF nTrips = 1 /\ nPairs = 1 THEN HAND_FULL_HOUSE
        ELSE IF fFlush THEN HAND_FLUSH
        ELSE IF fStraight THEN HAND_STRAIGHT
        ELSE IF nTrips = 1 THEN HAND_THREE_OF_A_KIND
        ELSE IF nPairs = 2 THEN HAND_TWO_PAIR
        ELSE IF nPairs = 1 THEN HAND_ONE_PAIR
        ELSE HAND_HIGH_CARD

\* "for (int i = 12; i >= 0; i--) if (nRankCount[i] == n) vKickers[..] = i":
\* the ranks that occur n times, from rank i down
RECURSIVE RanksWithCount(_, _, _)
RanksWithCount(nRankCount, n, i) ==
    IF i < 0 THEN <<>>
    ELSE (IF nRankCount[i] = n THEN <<i>> ELSE <<>>)
             \o RanksWithCount(nRankCount, n, i - 1)

\* "for i from 12 down, for j < nRankCount[i]": every card's rank, descending
RECURSIVE AllRanksDescending(_, _)
AllRanksDescending(nRankCount, i) ==
    IF i < 0 THEN <<>>
    ELSE [j \in 1..nRankCount[i] |-> i] \o AllRanksDescending(nRankCount, i - 1)

\* a straight whose kicker is always its highest rank, the ace of a wheel
\* included
StraightKicker_AceHigh(nRankCount) ==
    <<CHOOSE i \in 0..12 :
          nRankCount[i] # 0 /\ \A j \in 0..12 : nRankCount[j] # 0 => j <= i>>

\* the kicker of a straight: 3 for the wheel, else the highest rank
StraightKicker(nRankCount) ==
    IF IsWheel(nRankCount) THEN <<3>>
    ELSE <<CHOOSE i \in 0..12 :
               nRankCount[i] # 0 /\ \A j \in 0..12 : nRankCount[j] # 0 => j <= i>>

\* vKickers of ScoreHand
Kickers(rank, nRankCount) ==
    CASE rank = HAND_FOUR_OF_A_KIND ->
             RanksWithCount(nRankCount, 4, 12) \o RanksWithCount(nRankCount, 1, 12)
      [] rank = HAND_FULL_HOUSE ->
             RanksWithCount(nRankCount, 3, 12) \o RanksWithCount(nRankCount, 2, 12)
      [] rank = HAND_THREE_OF_A_KIND ->
             RanksWithCount(nRankCount, 3, 12) \o RanksWithCount(nRankCount, 1, 12)
      [] rank = HAND_TWO_PAIR ->
             RanksWithCount(nRankCount, 2, 12) \o RanksWithCount(nRankCount, 1, 12)
      [] rank = HAND_ONE_PAIR ->
             RanksWithCount(nRankCount, 2, 12) \o RanksWithCount(nRankCount, 1, 12)
      [] rank \in {HAND_STRAIGHT, HAND_STRAIGHT_FLUSH, HAND_ROYAL_FLUSH} ->
             StraightKicker(nRankCount)
      [] OTHER -> AllRanksDescending(nRankCount, 12)

\* "nScore |= vKickers[i] << (24 - i * 4)" for i < nKickers and i < 7: the
\* nibbles do not overlap, so the bits 0-27 are this sum
RECURSIVE PackKickers(_, _)
PackKickers(vKickers, i) ==
    IF i > Len(vKickers) \/ i > 7 THEN 0
    ELSE vKickers[i] * 16 ^ (7 - i) + PackKickers(vKickers, i + 1)

\* ScoreHand: <<bits 28-31, bits 0-27>> of nScore
ScoreHand(cards) ==
    LET rank == EvaluateHand(cards)
    IN  <<rank, PackKickers(Kickers(rank, RankCount(cards)), 1)>>

\* nScoreA > nScoreB on uint32_t
ScoreGreater(a, b) == a[1] > b[1] \/ (a[1] = b[1] /\ a[2] > b[2])

\* CPokerHand::GetRank and CPokerHand::GetScore of one hand
GetRankAndScore(cards) == [rank |-> EvaluateHand(cards), score |-> ScoreHand(cards)]

\* CPokerGame::DetermineWinner: 0 = draw, 1 = A wins, 2 = B wins
DetermineWinner(g) ==
    LET nScoreA == ScoreHand([i \in 1..HAND_SIZE |-> g.handA.cards[i - 1]])
        nScoreB == ScoreHand([i \in 1..HAND_SIZE |-> g.handB.cards[i - 1]])
    IN  IF g.fPlayerAFolded THEN 2
        ELSE IF g.fPlayerBFolded THEN 1
        ELSE IF ScoreGreater(nScoreA, nScoreB) THEN 1
        ELSE IF ScoreGreater(nScoreB, nScoreA) THEN 2
        ELSE 0

\* before GetRank and GetScore were called
NoEval == [rank |-> -1, score |-> <<0, 0>>]

\* both hands are evaluated, as DetermineWinner does
EvaluateHands ==
    /\ evalA' = GetRankAndScore(cardsA)
    /\ evalB' = GetRankAndScore(cardsB)
    /\ UNCHANGED <<cardsA, cardsB>>

\* the cards of hand A are handed over in another order: two neighbours
\* change places
SwapCards(i, j) ==
    /\ cardsA' = [cardsA EXCEPT ![i] = cardsA[j], ![j] = cardsA[i]]
    /\ UNCHANGED <<cardsB, evalA, evalB>>

\* before the first public operation
NoDelivery == [vchPubKey |-> NoKey, fKnown |-> FALSE, outcome |-> "none"]

\* the two message threads, and a thread that runs no operation
Threads == {"t1", "t2"}
NoThread ==
    [pc |-> "idle", op |-> "none", msg |-> <<>>, outcome |-> "none",
     ret |-> FALSE, session |-> <<>>]
NoThreads == [t \in Threads |-> NoThread]

\* the two tables
Tables(challenges, sessions) == [challenges |-> challenges, sessions |-> sessions]
NoBase == Tables(EmptyMap, EmptyMap)

\* before the first PushMessage, and outside SendGame*
NoPush == [command |-> "none", fLocked |-> FALSE]
NoSendArg == [pnode |-> NULL, hashSession |-> <<>>]

\* before the first call of MakeMove
NoChessCall == [op |-> "none", strMove |-> <<>>, ret |-> TRUE]

\* the number of half-moves played, from nFullMoveNumber and fWhiteToMove
Ply(b) == 2 * (b.nFullMoveNumber - 1) + (IF b.fWhiteToMove THEN 0 ELSE 1)

\* one call of MakeMove on the board
ChessMakeMove(strMove) ==
    LET r == MakeMove(chessBoard, strMove)
    IN  /\ chessBoard' = r.board
        /\ mcall' = [op |-> "MakeMove", strMove |-> strMove, ret |-> r.ret]

(***************************************************************************)
(* Spec: the session state machine.                                        *)
(***************************************************************************)
Init ==
    /\ mapGameChallenges = EmptyMap
    /\ mapGameSessions = EmptyMap
    /\ nBestHeight = 0
    /\ call = [op |-> "none", ret |-> TRUE]
    /\ consumed = {}
    /\ firstHeight = EmptyMap
    /\ game = CPokerGame
    /\ pcall = NoPokerCall
    /\ chessBoard = SetInitialPosition
    /\ mcall = NoChessCall
    /\ cardsA = CPokerHand
    /\ cardsB = CPokerHand
    /\ evalA = NoEval
    /\ evalB = NoEval
    /\ csHolder = "none"
    /\ sendPc = "idle"
    /\ sendArg = NoSendArg
    /\ lastPush = NoPush
    /\ applied = {}
    /\ delivery = NoDelivery
    /\ nIntake = 0
    /\ thr = NoThreads
    /\ base = NoBase

DeliverChallenge ==
    \E challenge \in ChallengeInputs :
        \* the model stores at most MaxChallenges different challenges in a run
        /\ AcceptGameChallengeRet(challenge) =>
               Cardinality((DOMAIN mapGameChallenges) \cup consumed
                           \cup {ChallengeGetHash(challenge)}) <= MaxChallenges
        /\ AcceptGameChallenge(challenge)

DeliverAccept ==
    \E accept \in AcceptInputs : AcceptGameAccept(accept)

\* the number of moves logged, over all sessions
RECURSIVE SumOver(_, _)
SumOver(f, S) ==
    IF S = {} THEN 0
    ELSE LET x == CHOOSE y \in S : TRUE IN f[x] + SumOver(f, S \ {x})

TotalMoves ==
    SumOver([h \in DOMAIN mapGameSessions |-> Len(mapGameSessions[h].vMoves)],
            DOMAIN mapGameSessions)

DeliverMove(bound) ==
    \E h \in (DOMAIN mapGameSessions) \cup {UnknownSession} :
        \E move \in MoveInputs(h) :
            \* the model logs at most bound moves
            /\ ProcessGameMoveRet(move) => TotalMoves < bound
            /\ ProcessGameMove(move)

DeliverSettle ==
    \E h \in (DOMAIN mapGameSessions) \cup {UnknownSession} :
        \E settle \in SettleInputs(h), outcome \in IntakeOutcomes :
            ProcessGameSettle(settle, outcome)

\* the four public operations, at a fixed chain height
Next ==
    \/ DeliverChallenge /\ UNCHANGED exceptChan
    \/ DeliverAccept /\ UNCHANGED exceptChan
    \/ DeliverMove(MaxMoves) /\ UNCHANGED exceptChan
    \/ DeliverSettle /\ UNCHANGED exceptChan

Spec == Init /\ [][Next]_vars

(***************************************************************************)
(* SpecChain: the session state machine while the chain grows.             *)
(***************************************************************************)
NextChain ==
    \/ DeliverChallenge /\ UNCHANGED exceptChan
    \/ DeliverAccept /\ UNCHANGED exceptChan
    \/ DeliverMove(MaxChainMoves) /\ UNCHANGED exceptChan
    \/ DeliverSettle /\ UNCHANGED exceptChan
    \/ NewBlock /\ UNCHANGED exceptChan

SpecChain == Init /\ [][NextChain]_vars

(***************************************************************************)
(* SpecDeliver: the session state machine with the history of what was     *)
(* delivered.  Every message that an operation applied is remembered, and  *)
(* every call of ProcessGameSettle that reaches line 156 hands one more    *)
(* transaction to the intake.                                              *)
(***************************************************************************)
\* a stake of 2^62 satoshis: not negative, so AcceptGameChallenge takes it
HugeStake == <<LIMB \div 4, 0, 0, 0>>

\* challenges that pass validation, for a stake of 1 and for one of 2^62
StakeChallenges ==
    { SignedChallenge(GAME_CHESS, I64(1), "kA", "kA"),
      SignedChallenge(GAME_CHESS, HugeStake, "kA", "kA") }

\* accepts of these challenges by the proposer kA and by kB, and one of kB
\* that kC signed
AcceptsOfStakes ==
    { SignedAccept(ChallengeGetHash(c), k, k) :
        c \in StakeChallenges, k \in {"kA", "kB"} }
    \cup { SignedAccept(ChallengeGetHash(c), "kB", "kC") : c \in StakeChallenges }

\* moves for session h by each of its players, numbered 0 and 1
MovesOfPlayers(h) ==
    { SignedMove(h, n, <<"e","2","e","4">>, k, k) : n \in 0..1, k \in {"kA", "kB"} }

\* the operation was handed msg, sent by vchPubKey: was a message of that
\* content applied before, and is it applied now
Track(msg, vchPubKey, fApplied, outcome) ==
    /\ delivery' = [vchPubKey |-> vchPubKey, fKnown |-> msg \in applied,
                    outcome |-> outcome]
    /\ applied' = IF fApplied THEN applied \cup {msg} ELSE applied

\* lines 143-156: ProcessGameSettle gets as far as AcceptTransaction
ReachesIntake(settle) ==
    /\ settle.hashSession \in DOMAIN mapGameSessions
    /\ CheckTransaction(settle.txSettle)

TrackedChallenge ==
    \E challenge \in StakeChallenges :
        /\ AcceptGameChallengeRet(challenge) =>
               Cardinality((DOMAIN mapGameChallenges) \cup consumed
                           \cup {ChallengeGetHash(challenge)}) <= MaxChallenges
        /\ AcceptGameChallenge(challenge)
        /\ Track(<<"gamechallenge", challenge>>, challenge.vchPubKey,
                 AcceptGameChallengeRet(challenge), "none")
        /\ UNCHANGED nIntake

TrackedAccept ==
    \E accept \in AcceptsOfStakes :
        /\ AcceptGameAccept(accept)
        /\ Track(<<"gameaccept", accept>>, accept.vchPubKey,
                 AcceptGameAcceptRet(accept), "none")
        /\ UNCHANGED nIntake

TrackedMove ==
    \E h \in (DOMAIN mapGameSessions) \cup {UnknownSession} :
        \E move \in MovesOfPlayers(h) :
            /\ ProcessGameMoveRet(move) => TotalMoves < MaxChainMoves
            /\ ProcessGameMove(move)
            /\ Track(<<"gamemove", move>>, move.vchPubKey,
                     ProcessGameMoveRet(move), "none")
            /\ UNCHANGED nIntake

TrackedSettle ==
    \E h \in (DOMAIN mapGameSessions) \cup {UnknownSession} :
        \E settle \in SettleInputs(h), outcome \in IntakeOutcomes :
            \* the model hands at most MaxIntake transactions to the intake
            /\ ReachesIntake(settle) => nIntake < MaxIntake
            /\ ProcessGameSettle(settle, outcome)
            /\ nIntake' = IF ReachesIntake(settle) THEN nIntake + 1 ELSE nIntake
            /\ Track(<<"gamesettle", settle>>, NoKey,
                     ProcessGameSettleRet(settle, outcome),
                     IF ReachesIntake(settle) THEN outcome ELSE "none")

NextDeliver ==
    \/ TrackedChallenge /\ UNCHANGED exceptDeliver
    \/ TrackedAccept /\ UNCHANGED exceptDeliver
    \/ TrackedMove /\ UNCHANGED exceptDeliver
    \/ TrackedSettle /\ UNCHANGED exceptDeliver

SpecDeliver == Init /\ [][NextDeliver]_vars

(***************************************************************************)
(* SpecThreads: two message threads run public operations at the same      *)
(* time, statement by statement: each enters CRITICAL_BLOCK(cs_mapGames),  *)
(* makes the tests of its operation, makes its writes, and leaves.         *)
(***************************************************************************)
\* the challenge of the threads, the accepts of it by its proposer and by
\* two others, and a settlement of a session in favour of its first player
ThreadChallenge == SignedChallenge(GAME_CHESS, I64(1), "kA", "kA")

ThreadAccepts ==
    { SignedAccept(ChallengeGetHash(ThreadChallenge), k, k) : k \in Keys }

ThreadSettle(h) ==
    [nVersion |-> 1, hashSession |-> h,
     hashWinner |-> Hash160(mapGameSessions[h].vchPubKeyA),
     txSettle |-> CreateSettlementTransaction(mapGameSessions[h],
                                              mapGameSessions[h].vchPubKeyA)]

\* a call a thread may begin: the operation, its message, and what the
\* intake will answer to a settlement
ThreadCall(op, msg, outcome) == [op |-> op, msg |-> msg, outcome |-> outcome]

ThreadCalls ==
    { ThreadCall("AcceptGameChallenge", ThreadChallenge, "none") }
    \cup { ThreadCall("AcceptGameAccept", a, "none") : a \in ThreadAccepts }
    \cup UNION { { ThreadCall("ProcessGameMove", m, "none") : m \in MovesOfPlayers(h) } :
                    h \in DOMAIN mapGameSessions }
    \cup { ThreadCall("ProcessGameSettle", ThreadSettle(h), outcome) :
              h \in DOMAIN mapGameSessions, outcome \in IntakeOutcomes }

\* both threads are handed a message each
StartCalls ==
    /\ \A t \in Threads : thr[t].pc \in {"idle", "done"}
    /\ csHolder = "none"
    \* the model begins calls while fewer than MaxChainMoves moves are logged
    /\ TotalMoves < MaxChainMoves
    /\ \E k1 \in ThreadCalls, k2 \in ThreadCalls :
          thr' = [t \in Threads |->
                     LET k == IF t = "t1" THEN k1 ELSE k2
                     IN  [NoThread EXCEPT !.pc = "enter", !.op = k.op,
                                          !.msg = k.msg, !.outcome = k.outcome]]
    /\ base' = Tables(mapGameChallenges, mapGameSessions)
    /\ UNCHANGED <<mapGameChallenges, mapGameSessions, csHolder>>

\* a block that is entered without waiting for the thread inside
CriticalBlockEnter_NoWait(t) ==
    /\ thr[t].pc = "enter"
    /\ csHolder' = t
    /\ thr' = [thr EXCEPT ![t].pc = "check"]
    /\ UNCHANGED <<mapGameChallenges, mapGameSessions, base>>

\* CRITICAL_BLOCK(cs_mapGames) at the head of each operation: the thread
\* waits while another is inside
CriticalBlockEnter(t) ==
    /\ thr[t].pc = "enter"
    /\ csHolder = "none"
    /\ csHolder' = t
    /\ thr' = [thr EXCEPT ![t].pc = "check"]
    /\ UNCHANGED <<mapGameChallenges, mapGameSessions, base>>

\* the tests of the operation, on the tables as they are now; a test that
\* fails returns, which leaves the block; AcceptGameAccept builds its
\* session (lines 77-84)
ThreadCheck(t) ==
    LET k == thr[t]
        ok == CASE k.op = "AcceptGameChallenge" -> AcceptGameChallengeRet(k.msg)
                [] k.op = "AcceptGameAccept" -> AcceptGameAcceptRet(k.msg)
                [] k.op = "ProcessGameMove" -> ProcessGameMoveRet(k.msg)
                [] k.op = "ProcessGameSettle" -> ProcessGameSettleRet(k.msg, k.outcome)
    IN  /\ k.pc = "check"
        /\ thr' = [thr EXCEPT
                      ![t].pc = IF ok THEN "write" ELSE "leave",
                      ![t].ret = ok,
                      ![t].session =
                          IF ok /\ k.op = "AcceptGameAccept"
                          THEN NewSession(mapGameChallenges[k.msg.hashChallenge],
                                          k.msg, nBestHeight)
                          ELSE <<>>]
        /\ UNCHANGED <<mapGameChallenges, mapGameSessions, csHolder, base>>

\* the writes of the operation, on the tables as they are now (lines 49,
\* 86-90, 124-128, 164)
ThreadWrite(t) ==
    LET k == thr[t]
    IN  /\ k.pc = "write"
        /\ CASE k.op = "AcceptGameChallenge" ->
                  /\ mapGameChallenges' =
                         MapPut(mapGameChallenges, ChallengeGetHash(k.msg), k.msg)
                  /\ UNCHANGED mapGameSessions
             [] k.op = "AcceptGameAccept" ->
                  /\ mapGameSessions' =
                         MapPut(mapGameSessions, SessionGetHash(k.session), k.session)
                  /\ mapGameChallenges' =
                         MapErase(mapGameChallenges, k.msg.hashChallenge)
             [] k.op = "ProcessGameMove" ->
                  /\ mapGameSessions' =
                         [mapGameSessions EXCEPT ![k.msg.hashSession] = StoreMove(@, k.msg)]
                  /\ UNCHANGED mapGameChallenges
             [] k.op = "ProcessGameSettle" ->
                  /\ mapGameSessions' =
                         [mapGameSessions EXCEPT ![k.msg.hashSession] = MarkSettled(@)]
                  /\ UNCHANGED mapGameChallenges
        /\ thr' = [thr EXCEPT ![t].pc = "leave"]
        /\ UNCHANGED <<csHolder, base>>

\* the end of the block, by its last statement or by a return inside it
CriticalBlockLeave(t) ==
    /\ thr[t].pc = "leave"
    /\ csHolder' = "none"
    /\ thr' = [thr EXCEPT ![t].pc = "done"]
    /\ UNCHANGED <<mapGameChallenges, mapGameSessions, base>>

NextThreads ==
    \/ StartCalls /\ UNCHANGED exceptThreads
    \/ \E t \in Threads : CriticalBlockEnter(t) /\ UNCHANGED exceptThreads
    \/ \E t \in Threads : ThreadCheck(t) /\ UNCHANGED exceptThreads
    \/ \E t \in Threads : ThreadWrite(t) /\ UNCHANGED exceptThreads
    \/ \E t \in Threads : CriticalBlockLeave(t) /\ UNCHANGED exceptThreads

SpecThreads == Init /\ [][NextThreads]_vars

(***************************************************************************)
(* SpecPoker: one poker game under every sequence of ProcessAction calls.  *)
(***************************************************************************)
\* texts for seeds and commitments: 1 and 2, whose hashes are 0x30 and
\* 0x55; 1 and 2 are also offered as commitments, which no text here
\* opens; the empty text reads as 0
HexInputs == { <<>>, <<"0","1">>, <<"0","2">>, <<"3","0">>, <<"5","5">> }

\* texts for discards
DiscardInputs == { <<>>, <<"0",",","2">>, <<"1",",","x",",","3">> }

Amounts == {-1, 0, 1}

\* the game as constructed, or with the phase set to POKER_COMMIT by its
\* holder: nPhase is a public field and no case of ProcessAction leaves
\* POKER_ANTE
InitPoker ==
    /\ mapGameChallenges = EmptyMap
    /\ mapGameSessions = EmptyMap
    /\ nBestHeight = 0
    /\ call = [op |-> "none", ret |-> TRUE]
    /\ consumed = {}
    /\ firstHeight = EmptyMap
    /\ game \in {CPokerGame, [CPokerGame EXCEPT !.nPhase = POKER_COMMIT]}
    /\ pcall = NoPokerCall
    /\ chessBoard = SetInitialPosition
    /\ mcall = NoChessCall
    /\ cardsA = CPokerHand
    /\ cardsB = CPokerHand
    /\ evalA = NoEval
    /\ evalB = NoEval
    /\ csHolder = "none"
    /\ sendPc = "idle"
    /\ sendArg = NoSendArg
    /\ lastPush = NoPush
    /\ applied = {}
    /\ delivery = NoDelivery
    /\ nIntake = 0
    /\ thr = NoThreads
    /\ base = NoBase

PokerCommit ==
    \E fPlayerA \in BOOLEAN, strExtra \in HexInputs :
        ProcessAction(fPlayerA, PACT_COMMIT_SEED, 0, strExtra)

PokerReveal ==
    \E fPlayerA \in BOOLEAN, strExtra \in HexInputs :
        ProcessAction(fPlayerA, PACT_REVEAL_SEED, 0, strExtra)

PokerFold == \E fPlayerA \in BOOLEAN : ProcessAction(fPlayerA, PACT_FOLD, 0, <<>>)

PokerCheck == \E fPlayerA \in BOOLEAN : ProcessAction(fPlayerA, PACT_CHECK, 0, <<>>)

PokerCall == \E fPlayerA \in BOOLEAN : ProcessAction(fPlayerA, PACT_CALL, 0, <<>>)

PokerRaise ==
    \E fPlayerA \in BOOLEAN, nAmount \in Amounts :
        \* the model lets the pot grow to MaxPot
        /\ ProcessActionResult(game, fPlayerA, PACT_RAISE, nAmount, <<>>).game.nPot
               <= MaxPot
        /\ ProcessAction(fPlayerA, PACT_RAISE, nAmount, <<>>)

PokerDiscard ==
    \E fPlayerA \in BOOLEAN, strExtra \in DiscardInputs :
        \* the model draws at most MaxDrawn cards after the deal
        /\ ProcessActionResult(game, fPlayerA, PACT_DISCARD, 0, strExtra)
               .game.nDrawCardIndex <= 2 * HAND_SIZE + MaxDrawn
        /\ ProcessAction(fPlayerA, PACT_DISCARD, 0, strExtra)

PokerShowHand ==
    \E fPlayerA \in BOOLEAN : ProcessAction(fPlayerA, PACT_SHOW_HAND, 0, <<>>)

\* an action code outside the enum
PokerUnknown == \E fPlayerA \in BOOLEAN : ProcessAction(fPlayerA, 8, 0, <<>>)

NextPoker ==
    \/ PokerCommit /\ UNCHANGED exceptPoker
    \/ PokerReveal /\ UNCHANGED exceptPoker
    \/ PokerFold /\ UNCHANGED exceptPoker
    \/ PokerCheck /\ UNCHANGED exceptPoker
    \/ PokerCall /\ UNCHANGED exceptPoker
    \/ PokerRaise /\ UNCHANGED exceptPoker
    \/ PokerDiscard /\ UNCHANGED exceptPoker
    \/ PokerShowHand /\ UNCHANGED exceptPoker
    \/ PokerUnknown /\ UNCHANGED exceptPoker

SpecPoker == InitPoker /\ [][NextPoker]_vars

(***************************************************************************)
(* SpecDraw: one poker game with checks only in the betting rounds and     *)
(* every sequence of discards, down to the end of the deck.                *)
(***************************************************************************)
\* the commitments 0x30 and 0x55 and the seeds 1 and 2 that open them
CommitTexts == { <<"3","0">>, <<"5","5">> }
SeedTexts == { <<"0","1">>, <<"0","2">> }

\* texts for discards of some slots: one slot twice, and an index out of
\* range followed by slot 3, a letter and slot 4
SomeTexts == { <<"2",",","2">>, <<"7",",","3",",","x",",","4">> }

\* texts for discards of no slot and of all five
AllTexts == { <<>>, <<"0",",","1",",","2",",","3",",","4">> }

DrawCommit ==
    \E fPlayerA \in BOOLEAN, strExtra \in CommitTexts :
        ProcessAction(fPlayerA, PACT_COMMIT_SEED, 0, strExtra)

DrawReveal ==
    \E fPlayerA \in BOOLEAN, strExtra \in SeedTexts :
        ProcessAction(fPlayerA, PACT_REVEAL_SEED, 0, strExtra)

DrawCheck == \E fPlayerA \in BOOLEAN : ProcessAction(fPlayerA, PACT_CHECK, 0, <<>>)

DrawDiscardSome ==
    \E fPlayerA \in BOOLEAN, strExtra \in SomeTexts :
        \* the model draws single cards for the first MaxDrawn cards after
        \* the deal
        /\ game.nDrawCardIndex < 2 * HAND_SIZE + MaxDrawn
        /\ ProcessAction(fPlayerA, PACT_DISCARD, 0, strExtra)

DrawDiscardAll ==
    \E fPlayerA \in BOOLEAN, strExtra \in AllTexts :
        ProcessAction(fPlayerA, PACT_DISCARD, 0, strExtra)

NextDraw ==
    \/ DrawCommit /\ UNCHANGED exceptPoker
    \/ DrawReveal /\ UNCHANGED exceptPoker
    \/ DrawCheck /\ UNCHANGED exceptPoker
    \/ DrawDiscardSome /\ UNCHANGED exceptPoker
    \/ DrawDiscardAll /\ UNCHANGED exceptPoker

SpecDraw == InitPoker /\ [][NextDraw]_vars

(***************************************************************************)
(* SpecChess: one board under every sequence of MakeMove calls with the    *)
(* texts of ChessInputs.                                                   *)
(***************************************************************************)
\* move texts: a short castling, a check on e1 from b4 and the pin of the
\* d-pawn it makes, the capture of the king on e1 from b4, an en passant
\* capture, a promotion of the h-pawn, and texts that name no move
WhiteTexts ==
    { <<"e","2","e","4">>, <<"g","1","f","3">>, <<"f","1","e","2">>,
      <<"e","1","g","1">>, <<"e","1","c","1">>, <<"d","2","d","3">>,
      <<"c","2","c","3">>, <<"e","4","e","5">>, <<"e","5","d","6">>,
      <<"h","2","h","4">>, <<"h","4","g","5">>, <<"g","5","g","6">>,
      <<"g","6","h","7">>, <<"h","7","g","8">>, <<"h","7","g","8","n">> }

BlackTexts ==
    { <<"e","7","e","5">>, <<"f","8","b","4">>, <<"a","7","a","6">>,
      <<"a","6","a","5">>, <<"a","5","a","4">>, <<"d","7","d","5">>,
      <<"g","7","g","5">>, <<"b","4","e","1">> }

BadTexts == { <<"e","2","x">>, <<"h","7","g","8","k">>, <<"e","2","e","5">> }

\* texts with a promotion letter where no pawn arrives on its far rank: a
\* knight move and a double pawn push
LetterTexts == { <<"g","1","f","3","q">>, <<"e","2","e","4","q">> }

ChessInputs == WhiteTexts \cup BlackTexts \cup BadTexts \cup LetterTexts

ChessMove ==
    \E strMove \in ChessInputs :
        \* the model follows a game for MaxPly half-moves
        /\ Ply(chessBoard) < MaxPly
        /\ ChessMakeMove(strMove)

NextChess ==
    \/ ChessMove /\ UNCHANGED exceptChess

SpecChess == Init /\ [][NextChess]_vars


(***************************************************************************)
(* SpecCastle: one board under every sequence of MakeMove calls with texts *)
(* that move the kings and the rooks, castle, and capture a rook on its    *)
(* corner.                                                                 *)
(***************************************************************************)
\* the model follows these games for MaxCastlePly half-moves
MaxCastlePly == 7

\* white: the king's knight out, the king's rook to g1 and back, the
\* king's pawn, the king to e2 and back, the king's bishop out, the short
\* castling, and the g-, h- and d-pawns
WhiteCastleTexts ==
    { <<"g","1","f","3">>, <<"h","1","g","1">>, <<"g","1","h","1">>,
      <<"e","2","e","4">>, <<"e","1","e","2">>, <<"e","2","e","1">>,
      <<"f","1","e","2">>, <<"e","1","g","1">>, <<"g","2","g","3">>,
      <<"h","2","h","4">>, <<"d","2","d","3">> }

\* black: the queen's bishop to b7 and on to the rook on h1, the a-pawn,
\* the king's knight out, and the king's rook to g8 and back
BlackCastleTexts ==
    { <<"b","7","b","6">>, <<"c","8","b","7">>, <<"b","7","h","1">>,
      <<"a","7","a","6">>, <<"a","6","a","5">>, <<"g","8","f","6">>,
      <<"h","8","g","8">>, <<"g","8","h","8">> }

CastleMove ==
    \E strMove \in WhiteCastleTexts \cup BlackCastleTexts :
        /\ Ply(chessBoard) < MaxCastlePly
        /\ ChessMakeMove(strMove)

NextCastle ==
    \/ CastleMove /\ UNCHANGED exceptChess

SpecCastle == Init /\ [][NextCastle]_vars
(***************************************************************************)
(* SpecHands: EvaluateHand and ScoreHand on two hands, hand A in every     *)
(* order of its cards.                                                     *)
(***************************************************************************)
\* the card of rank r (0 = deuce .. 12 = ace) and suit u
Card(r, u) == u * 13 + r

\* hands of every category, the weakest and the strongest of each, and
\* hands that differ only in suits
HandInputs ==
    { \* high card: 7-5-4-3-2, A-K-Q-J-9 twice
      <<Card(0,0), Card(1,0), Card(2,0), Card(3,0), Card(5,1)>>,
      <<Card(7,0), Card(9,0), Card(10,0), Card(11,0), Card(12,1)>>,
      <<Card(7,1), Card(9,1), Card(10,1), Card(11,1), Card(12,2)>>,
      \* one pair: 2-2-5-4-3, A-A-K-Q-J
      <<Card(0,0), Card(1,0), Card(2,0), Card(3,0), Card(0,1)>>,
      <<Card(10,0), Card(11,0), Card(12,0), Card(9,1), Card(12,1)>>,
      \* two pair: 3-3-2-2-4, A-A-K-K-Q, A-A-2-2-K
      <<Card(0,0), Card(1,0), Card(2,0), Card(0,1), Card(1,1)>>,
      <<Card(10,0), Card(11,0), Card(12,0), Card(11,1), Card(12,1)>>,
      <<Card(0,0), Card(11,0), Card(12,0), Card(0,1), Card(12,1)>>,
      \* three of a kind: 2-2-2-4-3, A-A-A-K-Q
      <<Card(0,0), Card(1,0), Card(2,0), Card(0,1), Card(0,2)>>,
      <<Card(10,0), Card(11,0), Card(12,0), Card(12,1), Card(12,2)>>,
      \* straight: the wheel, 6-high, ace-high
      <<Card(0,0), Card(1,0), Card(2,0), Card(3,0), Card(12,1)>>,
      <<Card(0,0), Card(1,0), Card(2,0), Card(3,0), Card(4,1)>>,
      <<Card(8,0), Card(9,0), Card(10,0), Card(11,0), Card(12,1)>>,
      \* flush: 7-5-4-3-2, A-K-Q-J-9
      <<Card(0,0), Card(1,0), Card(2,0), Card(3,0), Card(5,0)>>,
      <<Card(7,0), Card(9,0), Card(10,0), Card(11,0), Card(12,0)>>,
      \* full house: 2-2-2-3-3, A-A-A-K-K
      <<Card(0,0), Card(1,0), Card(0,1), Card(1,1), Card(0,2)>>,
      <<Card(11,0), Card(12,0), Card(11,1), Card(12,1), Card(12,2)>>,
      \* four of a kind: 2-2-2-2-9, 2-2-2-2-3, A-A-A-A-K
      <<Card(0,0), Card(7,0), Card(0,1), Card(0,2), Card(0,3)>>,
      <<Card(0,0), Card(1,0), Card(0,1), Card(0,2), Card(0,3)>>,
      <<Card(11,0), Card(12,0), Card(12,1), Card(12,2), Card(12,3)>>,
      \* straight flush: the wheel, 6-high, king-high
      <<Card(0,0), Card(1,0), Card(2,0), Card(3,0), Card(12,0)>>,
      <<Card(0,0), Card(1,0), Card(2,0), Card(3,0), Card(4,0)>>,
      <<Card(7,0), Card(8,0), Card(9,0), Card(10,0), Card(11,0)>>,
      \* royal flush, in two suits
      <<Card(8,0), Card(9,0), Card(10,0), Card(11,0), Card(12,0)>>,
      <<Card(8,3), Card(9,3), Card(10,3), Card(11,3), Card(12,3)>> }

InitHands ==
    /\ mapGameChallenges = EmptyMap
    /\ mapGameSessions = EmptyMap
    /\ nBestHeight = 0
    /\ call = [op |-> "none", ret |-> TRUE]
    /\ consumed = {}
    /\ firstHeight = EmptyMap
    /\ game = CPokerGame
    /\ pcall = NoPokerCall
    /\ chessBoard = SetInitialPosition
    /\ mcall = NoChessCall
    /\ cardsA \in HandInputs
    /\ cardsB \in HandInputs
    /\ evalA = NoEval
    /\ evalB = NoEval
    /\ csHolder = "none"
    /\ sendPc = "idle"
    /\ sendArg = NoSendArg
    /\ lastPush = NoPush
    /\ applied = {}
    /\ delivery = NoDelivery
    /\ nIntake = 0
    /\ thr = NoThreads
    /\ base = NoBase

Swap == \E i \in 1..(HAND_SIZE - 1) : SwapCards(i, i + 1)

NextHands ==
    \/ EvaluateHands /\ UNCHANGED exceptHands
    \/ Swap /\ UNCHANGED exceptHands

SpecHands == InitHands /\ [][NextHands]_vars

(***************************************************************************)
(* SpecSend: the user-interface thread in SendGameChallenge,               *)
(* SendGameAccept and SendGameMove (gamechannel.cpp:228-307), statement by *)
(* statement around cs_mapGames, while the message thread takes accepts    *)
(* from the peer.  The node's key keyUser is kA.                           *)
(***************************************************************************)
keyUser == "kA"

\* pnode->PushMessage(command, ...): what is pushed, and whether the
\* pushing thread is inside CRITICAL_BLOCK(cs_mapGames)
PushMessage(command) ==
    lastPush' = [command |-> command, fLocked |-> csHolder' = "ui"]

\* SendGameChallenge up to line 242: build, sign, AcceptGameChallenge (which
\* enters and leaves cs_mapGames itself)
SendGameChallengeStore(nGameType, nBetAmount) ==
    LET challenge == SignedChallenge(nGameType, nBetAmount, keyUser, keyUser)
    IN  /\ sendPc = "idle"
        /\ csHolder = "none"
        \* the model stores at most MaxChallenges different challenges in a run
        /\ AcceptGameChallengeRet(challenge) =>
               Cardinality((DOMAIN mapGameChallenges) \cup consumed
                           \cup {ChallengeGetHash(challenge)}) <= MaxChallenges
        /\ AcceptGameChallenge(challenge)
        /\ sendPc' = "SendGameChallenge:relay"
        /\ UNCHANGED <<csHolder, sendArg, lastPush>>

\* SendGameChallenge lines 245-250: relay to the peers in vNodes
SendGameChallengeRelay ==
    /\ sendPc = "SendGameChallenge:relay"
    /\ UNCHANGED csHolder
    /\ PushMessage("gamechallenge")
    /\ sendPc' = "idle"
    /\ UNCHANGED <<chanVars, sendArg>>

\* SendGameAccept up to line 267: build, sign, AcceptGameAccept
SendGameAcceptStore(hashChallenge, pnodeChallenger) ==
    /\ sendPc = "idle"
    /\ csHolder = "none"
    /\ AcceptGameAccept(SignedAccept(hashChallenge, keyUser, keyUser))
    /\ sendPc' = "SendGameAccept:push"
    /\ sendArg' = [sendArg EXCEPT !.pnode = pnodeChallenger]
    /\ UNCHANGED <<csHolder, lastPush>>

\* SendGameAccept lines 270-273
SendGameAcceptPush ==
    /\ sendPc = "SendGameAccept:push"
    /\ UNCHANGED csHolder
    /\ IF sendArg.pnode # NULL THEN PushMessage("gameaccept")
                               ELSE UNCHANGED lastPush
    /\ sendPc' = "idle"
    /\ sendArg' = NoSendArg
    /\ UNCHANGED chanVars

\* SendGameMove lines 280-283: enter cs_mapGames; a session that is not in
\* the table ends the call, which leaves the block
SendGameMoveNotFound(hashSession) ==
    /\ sendPc = "idle"
    /\ csHolder = "none"
    /\ hashSession \notin DOMAIN mapGameSessions
    /\ call' = [op |-> "SendGameMove", ret |-> FALSE]
    /\ UNCHANGED <<mapGameChallenges, mapGameSessions, nBestHeight, consumed,
                   firstHeight, sendVars>>

\* SendGameMove lines 280-300: enter cs_mapGames, build and sign the move
\* with the log length as its number, ProcessGameMove (which enters the
\* block again, on the same thread)
SendGameMoveProcess(hashSession, strMove) ==
    /\ sendPc = "idle"
    /\ csHolder = "none"
    /\ hashSession \in DOMAIN mapGameSessions
    /\ LET move == SignedMove(hashSession, Len(mapGameSessions[hashSession].vMoves),
                              strMove, keyUser, keyUser)
       IN  \* the model logs at most MaxMoves moves
           /\ ProcessGameMoveRet(move) => TotalMoves < MaxMoves
           /\ ProcessGameMove(move)
    /\ csHolder' = "ui"
    /\ sendPc' = "SendGameMove:push"
    /\ sendArg' = [sendArg EXCEPT !.hashSession = hashSession]
    /\ UNCHANGED lastPush

\* SendGameMove lines 302-304, still inside the block
SendGameMovePush ==
    /\ sendPc = "SendGameMove:push"
    /\ UNCHANGED csHolder
    /\ IF mapGameSessions[sendArg.hashSession].pnodeOpponent # NULL
       THEN PushMessage("gamemove")
       ELSE UNCHANGED lastPush
    /\ sendPc' = "SendGameMove:leave"
    /\ UNCHANGED <<chanVars, sendArg>>

\* SendGameMove lines 305-306: the block ends
SendGameMoveLeave ==
    /\ sendPc = "SendGameMove:leave"
    /\ csHolder' = "none"
    /\ sendPc' = "idle"
    /\ sendArg' = NoSendArg
    /\ UNCHANGED <<chanVars, lastPush>>

\* the message thread takes an accept from the peer; AcceptGameAccept
\* waits at CRITICAL_BLOCK(cs_mapGames) while the other thread is inside
PeerAccept ==
    /\ csHolder = "none"
    /\ \E accept \in AcceptInputs : AcceptGameAccept(accept)
    /\ UNCHANGED sendVars

\* the holder of a session records the connection to the opponent
SetOpponentNode(hashSession) ==
    /\ csHolder = "none"
    /\ mapGameSessions[hashSession].pnodeOpponent = NULL
    /\ mapGameSessions' =
           [mapGameSessions EXCEPT ![hashSession].pnodeOpponent = "peer"]
    /\ UNCHANGED <<mapGameChallenges, nBestHeight, call, consumed, firstHeight,
                   sendVars>>

NextSend ==
    \/ /\ \E c \in GoodChallenges : SendGameChallengeStore(c.nGameType, c.nBetAmount)
       /\ UNCHANGED exceptSend
    \/ SendGameChallengeRelay /\ UNCHANGED exceptSend
    \/ /\ \E c \in GoodChallenges, pnodeChallenger \in {NULL, "peer"} :
              SendGameAcceptStore(ChallengeGetHash(c), pnodeChallenger)
       /\ UNCHANGED exceptSend
    \/ SendGameAcceptPush /\ UNCHANGED exceptSend
    \/ SendGameMoveNotFound(UnknownSession) /\ UNCHANGED exceptSend
    \/ /\ \E h \in DOMAIN mapGameSessions, strMove \in MoveTexts :
              SendGameMoveProcess(h, strMove)
       /\ UNCHANGED exceptSend
    \/ SendGameMovePush /\ UNCHANGED exceptSend
    \/ SendGameMoveLeave /\ UNCHANGED exceptSend
    \/ PeerAccept /\ UNCHANGED exceptSend
    \/ /\ \E h \in DOMAIN mapGameSessions : SetOpponentNode(h)
       /\ UNCHANGED exceptSend

SpecSend == Init /\ [][NextSend]_vars

(***************************************************************************)
(* Properties of the session state machine.                                *)
(***************************************************************************)
IsPrefix(s, t) ==
    /\ Len(s) <= Len(t)
    /\ \A i \in 1..Len(s) : s[i] = t[i]

\* C1: ProcessGameMove rejects a move whose nMoveNumber differs from the
\* current length of the session's log, and the rejected call leaves every
\* session (its log and its state) as it was; an accepted call appends one
\* entry that carries the old log length as its number.
C1_MoveNumberIsLogLength ==
    [][call'.op = "ProcessGameMove" =>
        LET h == call'.hashSession IN
        /\ (h \in DOMAIN mapGameSessions
              /\ call'.nMoveNumber # Len(mapGameSessions[h].vMoves))
           => ~call'.ret
        /\ ~call'.ret => mapGameSessions' = mapGameSessions
        /\ call'.ret =>
              /\ h \in DOMAIN mapGameSessions
              /\ Len(mapGameSessions'[h].vMoves) = Len(mapGameSessions[h].vMoves) + 1
              /\ mapGameSessions'[h].vMoves[Len(mapGameSessions'[h].vMoves)].nMoveNumber
                     = Len(mapGameSessions[h].vMoves)
    ]_vars

\* C1 happens: a move numbered past the end of a one-move log was rejected
C1_Witness ==
    /\ call.op = "ProcessGameMove"
    /\ ~call.ret
    /\ call.hashSession \in DOMAIN mapGameSessions
    /\ Len(mapGameSessions[call.hashSession].vMoves) = 1
    /\ call.nMoveNumber = 2

\* C2: a challenge gives rise to at most one session, whatever the order
\* and repetition of AcceptGameChallenge and AcceptGameAccept; an accept
\* for a challenge that is unknown or was consumed before is rejected and
\* neither creates nor alters a session.
C2_OneSessionPerChallenge ==
    [][/\ \A h1, h2 \in DOMAIN mapGameSessions' :
              mapGameSessions'[h1].hashChallenge = mapGameSessions'[h2].hashChallenge
                  => h1 = h2
       /\ (call'.op = "AcceptGameAccept"
              /\ (call'.hashChallenge \notin DOMAIN mapGameChallenges
                     \/ call'.hashChallenge \in consumed))
          => (~call'.ret /\ mapGameSessions' = mapGameSessions)
    ]_vars

\* C3: a session is never deleted nor made anew; its log only grows by
\* appending; its stake, game type and two keys never change.
C3_SessionsOnlyGrow ==
    [][\A h \in DOMAIN mapGameSessions :
          /\ h \in DOMAIN mapGameSessions'
          /\ IsPrefix(mapGameSessions[h].vMoves, mapGameSessions'[h].vMoves)
          /\ mapGameSessions'[h].nBetAmount = mapGameSessions[h].nBetAmount
          /\ mapGameSessions'[h].nGameType = mapGameSessions[h].nGameType
          /\ mapGameSessions'[h].vchPubKeyA = mapGameSessions[h].vchPubKeyA
          /\ mapGameSessions'[h].vchPubKeyB = mapGameSessions[h].vchPubKeyB
    ]_vars

\* C5: in every session, the log entry at index i (from 0) has
\* nMoveNumber = i, carries a signature that verifies under its sender key,
\* and that key is one of the session's two keys.
C5_LoggedMovesAuthentic ==
    \A h \in DOMAIN mapGameSessions :
        LET session == mapGameSessions[h] IN
        \A i \in 1..Len(session.vMoves) :
            /\ session.vMoves[i].nMoveNumber = i - 1
            /\ MoveCheckSignature(session.vMoves[i])
            /\ session.vMoves[i].vchPubKey \in {session.vchPubKeyA, session.vchPubKeyB}

\* C5 happens: a log holds a move of each of the two players
C5_Witness ==
    \E h \in DOMAIN mapGameSessions :
        LET session == mapGameSessions[h] IN
        /\ Len(session.vMoves) = 2
        /\ session.vMoves[1].vchPubKey = session.vchPubKeyA
        /\ session.vMoves[2].vchPubKey = session.vchPubKeyB

\* one step of the life cycle OPEN, FUNDED, PLAYING, FINISHED, then
\* SETTLED or EXPIRED
LifeCycleStep(from, to) ==
    \/ from = GSTATE_OPEN /\ to = GSTATE_FUNDED
    \/ from = GSTATE_FUNDED /\ to = GSTATE_PLAYING
    \/ from = GSTATE_PLAYING /\ to = GSTATE_FINISHED
    \/ from = GSTATE_FINISHED /\ to \in {GSTATE_SETTLED, GSTATE_EXPIRED}

\* C6: nState changes only by one step along OPEN, FUNDED, PLAYING,
\* FINISHED, then SETTLED or EXPIRED: no state is skipped, none is entered
\* backwards, and SETTLED and EXPIRED are never left.
C6_LifeCycleOrder ==
    [][\A h \in (DOMAIN mapGameSessions) \cap (DOMAIN mapGameSessions') :
          mapGameSessions'[h].nState # mapGameSessions[h].nState
              => LifeCycleStep(mapGameSessions[h].nState, mapGameSessions'[h].nState)
    ]_vars

\* C4: ProcessGameMove applies each move to the game engine of the session
\* before logging it, so malformed or illegal move text is rejected, and
\* replaying the log of a (chess) session from the initial position never
\* meets a move that MakeMove refuses.
C4_LogReplaysLegally ==
    \A h \in DOMAIN mapGameSessions :
        mapGameSessions[h].nGameType = GAME_CHESS
            => Replay(mapGameSessions[h].vMoves).ok

\* C7: ProcessGameSettle marks a (chess) session SETTLED only when the
\* replayed game is over, by checkmate with the mating side declared the
\* winner or by a draw with no winner declared; otherwise it rejects.
C7_SettledOnlyWhenWon ==
    (/\ call.op = "ProcessGameSettle"
     /\ call.ret
     /\ mapGameSessions[call.hashSession].nGameType = GAME_CHESS)
    => LET session == mapGameSessions[call.hashSession]
           r == Replay(session.vMoves)
       IN  \/ /\ IsCheckmate(r.board)
              /\ r.last > 0
              /\ call.hashWinner = Hash160(session.vMoves[r.last].vchPubKey)
           \/ /\ ~IsCheckmate(r.board)
              /\ IsDraw(r.board)
              /\ call.hashWinner = NoWinner

\* C8: the nLockTime of a session is the chain height at which the session
\* was first created plus 144, for as long as the session exists, and the
\* refund transaction of either seat carries that locktime.
C8_LockTimeFixed ==
    \A h \in DOMAIN mapGameSessions :
        /\ mapGameSessions[h].nLockTime = firstHeight[h] + REFUND_DELAY
        /\ \A fPlayerA \in BOOLEAN :
              CreateRefundTransaction(mapGameSessions[h], fPlayerA).nLockTime
                  = firstHeight[h] + REFUND_DELAY

(***************************************************************************)
(* Properties of the poker engine.                                         *)
(***************************************************************************)
\* C9: ProcessAction(PACT_REVEAL_SEED) succeeds only if hashSeedA and
\* hashSeedB are both non-zero; a reveal made while a commitment is still
\* missing is rejected and changes no field of the game.
C9_RevealNeedsBothCommitments ==
    [][(pcall'.op = "ProcessAction" /\ pcall'.action = PACT_REVEAL_SEED) =>
          /\ pcall'.ret => (game.hashSeedA # 0 /\ game.hashSeedB # 0)
          /\ (game.hashSeedA = 0 \/ game.hashSeedB = 0)
                 => (~pcall'.ret /\ game' = game)
    ]_vars

\* C9 happens: seat A has committed, seat B has not, and a reveal was
\* rejected
C9_Witness ==
    /\ pcall.op = "ProcessAction"
    /\ pcall.action = PACT_REVEAL_SEED
    /\ ~pcall.ret
    /\ game.nPhase = POKER_COMMIT
    /\ game.hashSeedA # 0
    /\ game.hashSeedB = 0

\* C10: a reveal whose seed does not hash to the commitment recorded for
\* its seat is rejected and leaves the game exactly as it was: same phase,
\* seat not marked revealed, no seed stored, no shuffle, no deal.
C10_WrongSeedRejected ==
    [][(/\ pcall'.op = "ProcessAction"
        /\ pcall'.action = PACT_REVEAL_SEED
        /\ Hash(SetHex(pcall'.strExtra))
               # (IF pcall'.fPlayerA THEN game.hashSeedA ELSE game.hashSeedB))
       => (~pcall'.ret /\ game' = game)
    ]_vars

\* C10 happens: in the reveal phase, after seat B revealed, seat A offered
\* a seed that does not open its commitment and was rejected
C10_Witness ==
    /\ pcall.op = "ProcessAction"
    /\ pcall.action = PACT_REVEAL_SEED
    /\ pcall.fPlayerA
    /\ ~pcall.ret
    /\ game.nPhase = POKER_REVEAL
    /\ game.fSeedBRevealed
    /\ ~game.fSeedARevealed
    /\ Hash(SetHex(pcall.strExtra)) # game.hashSeedA

\* C11: the phase is forward-only: over every ProcessAction call, accepted
\* or rejected, the phase after the call is the same as or later than the
\* phase before it in the order ante, commit, reveal, deal, bet1, draw,
\* bet2, showdown, done (the order of the PokerPhase values).
C11_PhaseForwardOnly ==
    [][pcall'.op = "ProcessAction" => game'.nPhase >= game.nPhase]_vars

\* C11 happens: the game went through the draw and the second betting
\* round and stands in the showdown
C11_Witness ==
    /\ pcall.op = "ProcessAction"
    /\ pcall.action \in {PACT_CHECK, PACT_CALL}
    /\ pcall.ret
    /\ game.nPhase = POKER_SHOWDOWN
    /\ game.nDrawCardIndex > 2 * HAND_SIZE

\* C12: the first commit-seed submitted to a newly constructed game
\* (phase ante) with a non-zero commitment is accepted.
C12_FirstCommitAccepted ==
    [][(/\ game = CPokerGame
        /\ pcall'.op = "ProcessAction"
        /\ pcall'.action = PACT_COMMIT_SEED
        /\ SetHex(pcall'.strExtra) # 0)
       => pcall'.ret
    ]_vars

C14_SideAlternates ==
    [][mcall'.op = "MakeMove" =>
          IF mcall'.ret
          THEN /\ chessBoard'.fWhiteToMove = ~chessBoard.fWhiteToMove
               /\ chessBoard'.nFullMoveNumber =
                      chessBoard.nFullMoveNumber
                          + (IF chessBoard.fWhiteToMove THEN 0 ELSE 1)
          ELSE /\ chessBoard'.fWhiteToMove = chessBoard.fWhiteToMove
               /\ chessBoard'.nFullMoveNumber = chessBoard.nFullMoveNumber
    ]_vars

\* C14 happens: black's second move was accepted, white is to move in
\* move 3
C14_Witness ==
    /\ mcall.op = "MakeMove"
    /\ mcall.ret
    /\ chessBoard.fWhiteToMove
    /\ chessBoard.nFullMoveNumber = 3

\* C15: after every move MakeMove accepts, the king of the side that just
\* moved is on the board and attacked by no piece of the other side.
C15_MoverKingSafe ==
    [][(mcall'.op = "MakeMove" /\ mcall'.ret) =>
          LET white == chessBoard.fWhiteToMove
              kingSq == FindKing(chessBoard', white)
          IN  kingSq >= 0 /\ ~IsSquareAttacked(chessBoard', kingSq, ~white)
    ]_vars

\* C15 happens: with the black bishop on b4 and the d-pawn gone, white
\* answered the check by c2c3
C15_Witness ==
    /\ mcall.op = "MakeMove"
    /\ mcall.ret
    /\ mcall.strMove = <<"c","2","c","3">>
    /\ chessBoard.board[25] = COLOR_BLACK + PIECE_BISHOP
    /\ chessBoard.board[11] = PIECE_EMPTY
    /\ chessBoard.board[18] = COLOR_WHITE + PIECE_PAWN

\* C16: every board played from the initial position holds exactly one
\* white king and exactly one black king.
C16_OneKingEach ==
    /\ Cardinality({sq \in 0..63 :
                       chessBoard.board[sq] = COLOR_WHITE + PIECE_KING}) = 1
    /\ Cardinality({sq \in 0..63 :
                       chessBoard.board[sq] = COLOR_BLACK + PIECE_KING}) = 1

\* C16 happens: the h-pawn took the knight on g8 next to the black king and
\* promoted, and both kings stand on their home squares
C16_Witness ==
    /\ chessBoard.board[62] \in {COLOR_WHITE + PIECE_QUEEN, COLOR_WHITE + PIECE_KNIGHT}
    /\ chessBoard.board[60] = COLOR_BLACK + PIECE_KING
    /\ chessBoard.board[4] = COLOR_WHITE + PIECE_KING

\* the squares between king and rook, and the squares the king stands on,
\* crosses and lands on, for a castling move of the king from its home
\* square
CastleBetween(from, to) ==
    IF to > from THEN {from + 1, from + 2} ELSE {from - 1, from - 2, from - 3}

CastleKingPath(from, to) ==
    IF to > from THEN {from, from + 1, from + 2} ELSE {from, from - 1, from - 2}

CastleRight(b, white, from, to) ==
    IF white THEN (IF to > from THEN b.fCastleWK ELSE b.fCastleWQ)
             ELSE (IF to > from THEN b.fCastleBK ELSE b.fCastleBQ)

\* the initial position with some squares changed
InitialBoardWith(changes) ==
    [sq \in 0..63 |-> IF sq \in DOMAIN changes THEN changes[sq]
                       ELSE SetInitialPosition.board[sq]]

C18_OrderOfCardsIrrelevant ==
    evalA # NoEval =>
        /\ EvaluateHand(cardsA) = evalA.rank
        /\ ScoreHand(cardsA) = evalA.score

\* C18 happens: hand A was evaluated and its cards stand in another order
\* than the ascending one they were handed over in
C18_Witness ==
    /\ evalA # NoEval
    /\ cardsA \notin HandInputs
    /\ cardsA[1] > cardsA[5]

\* the category-specific kicker tuple: for a straight of either kind its
\* high rank, five for the wheel; otherwise the different ranks of the
\* hand, those that occur more often first, and among those that occur
\* equally often the higher first
RECURSIVE SortedByCountThenRank(_, _)
SortedByCountThenRank(nRankCount, ranks) ==
    IF ranks = {} THEN <<>>
    ELSE LET top == CHOOSE r \in ranks :
                        \A q \in ranks :
                            \/ nRankCount[r] > nRankCount[q]
                            \/ (nRankCount[r] = nRankCount[q] /\ r >= q)
         IN  <<top>> \o SortedByCountThenRank(nRankCount, ranks \ {top})

KickerTuple(cards) ==
    LET n == RankCount(cards)
        ranks == {r \in 0..12 : n[r] > 0}
    IN  IF EvaluateHand(cards) \in {HAND_STRAIGHT, HAND_STRAIGHT_FLUSH, HAND_ROYAL_FLUSH}
        THEN IF ranks = {0, 1, 2, 3, 12} THEN <<3>>
             ELSE <<CHOOSE r \in ranks : \A q \in ranks : q <= r>>
        ELSE SortedByCountThenRank(n, ranks)

\* s comes after t in the lexicographic order
RECURSIVE LexGreater(_, _)
LexGreater(s, t) ==
    IF s = <<>> \/ t = <<>> THEN s # <<>>
    ELSE Head(s) > Head(t) \/ (Head(s) = Head(t) /\ LexGreater(Tail(s), Tail(t)))

\* C19: for two hands of five distinct cards each, the comparison of their
\* scores is the lexicographic comparison of (category, kicker tuple): the
\* higher category outscores whatever the kickers, within a category the
\* kickers decide in order with the wheel as a five-high straight below
\* every other straight, and the scores are equal exactly when category and
\* rank multiset coincide.
C19_ScoreOrdersHands ==
    (evalA # NoEval /\ evalB # NoEval) =>
        LET keyA == <<evalA.rank>> \o KickerTuple(cardsA)
            keyB == <<evalB.rank>> \o KickerTuple(cardsB)
        IN  /\ ScoreGreater(evalA.score, evalB.score) <=> LexGreater(keyA, keyB)
            /\ ScoreGreater(evalB.score, evalA.score) <=> LexGreater(keyB, keyA)
            /\ evalA.rank > evalB.rank => ScoreGreater(evalA.score, evalB.score)
            /\ (evalA.score = evalB.score) <=>
                   (evalA.rank = evalB.rank /\ RankCount(cardsA) = RankCount(cardsB))

\* C19 happens: four deuces with a nine were scored against aces full of
\* kings
C19_Witness ==
    /\ evalA # NoEval
    /\ evalB # NoEval
    /\ RankCount(cardsA) = [r \in 0..12 |-> IF r = 0 THEN 4 ELSE IF r = 7 THEN 1 ELSE 0]
    /\ RankCount(cardsB) = [r \in 0..12 |-> IF r = 12 THEN 3 ELSE IF r = 11 THEN 2 ELSE 0]
    /\ ScoreGreater(evalA.score, evalB.score)

C21_RedeliveryIsNoOp ==
    [][(/\ call'.op \in {"AcceptGameChallenge", "ProcessGameMove", "ProcessGameSettle"}
        /\ delivery'.fKnown)
       => /\ mapGameChallenges' = mapGameChallenges
          /\ mapGameSessions' = mapGameSessions
          /\ nIntake' = nIntake
    ]_vars

\* C22: when AcceptGameChallenge, AcceptGameAccept, ProcessGameMove or
\* ProcessGameSettle returns false, the challenge table and the session
\* table, with every session's log and state, are what they were before
\* the call.
C22_FailureChangesNothing ==
    [][(/\ call'.op \in {"AcceptGameChallenge", "AcceptGameAccept",
                         "ProcessGameMove", "ProcessGameSettle"}
        /\ ~call'.ret)
       => /\ mapGameChallenges' = mapGameChallenges
          /\ mapGameSessions' = mapGameSessions
    ]_vars

\* C22 happens: an accept of a stored challenge was refused (the proposer's
\* own, or one that another key signed) while a session with a logged move
\* is held
C22_Witness ==
    /\ call.op = "AcceptGameAccept"
    /\ ~call.ret
    /\ call.hashChallenge \in DOMAIN mapGameChallenges
    /\ \E h \in DOMAIN mapGameSessions : Len(mapGameSessions[h].vMoves) > 0

\* x > 0
I64IsPositive(x) == ~I64IsNegative(x) /\ x # I64(0)

\* C23: AcceptGameChallenge stores a challenge only if its game type is
\* chess or poker, its stake is positive, its key is not empty and its
\* signature verifies: a challenge with a stake of zero or below, or of an
\* unknown game type, is never in the challenge table.
C23_StoredChallengesValid ==
    \A h \in DOMAIN mapGameChallenges :
        LET challenge == mapGameChallenges[h] IN
        /\ challenge.nGameType \in {GAME_CHESS, GAME_POKER}
        /\ I64IsPositive(challenge.nBetAmount)
        /\ challenge.vchPubKey # NoKey
        /\ ChallengeCheckSignature(challenge)

\* C24: ProcessGameSettle marks a session SETTLED only if the settlement
\* transaction passed CheckTransaction and the intake took it; when the
\* check fails or the intake does not take the transaction, missing inputs
\* included, every session stays in the state it had.
C24_SettledOnlyWhenTaken ==
    [][call'.op = "ProcessGameSettle" =>
          /\ delivery'.outcome # "accepted" => mapGameSessions' = mapGameSessions
          /\ \A h \in DOMAIN mapGameSessions' :
                (/\ mapGameSessions'[h].nState = GSTATE_SETTLED
                 /\ mapGameSessions[h].nState # GSTATE_SETTLED)
                => delivery'.outcome = "accepted"
    ]_vars

\* x + y of two int64 that are not negative, in five limbs: no bit is lost
WideSum(x, y) ==
    LET s4 == x[4] + y[4]
        s3 == x[3] + y[3] + (s4 \div LIMB)
        s2 == x[2] + y[2] + (s3 \div LIMB)
        s1 == x[1] + y[1] + (s2 \div LIMB)
    IN  <<s1 \div LIMB, s1 % LIMB, s2 % LIMB, s3 % LIMB, s4 % LIMB>>

\* the value of an int64 that is not negative, in five limbs
Wide(x) == <<0>> \o x

\* x * 2 is outside the int64 range: the two top bits of x differ
I64DoubleOverflows(x) ==
    /\ x[1] >= LIMB \div 4
    /\ x[1] < 3 * (LIMB \div 4)

\* C25: for every stake a session holds, the refund transaction of a seat
\* pays that seat's stake to that seat's key, and the settlement transaction
\* pays both stakes, twice the stake with no 64-bit wraparound, to the
\* winner's key with locktime 0: the settlement value is the sum of the two
\* refund values.
C25_SettlementPaysBothStakes ==
    \A h \in DOMAIN mapGameSessions :
        LET session == mapGameSessions[h]
            txRefundA == CreateRefundTransaction(session, TRUE)
            txRefundB == CreateRefundTransaction(session, FALSE)
        IN  /\ txRefundA.vout = << [nValue |-> session.nBetAmount,
                                    scriptPubKey |-> <<session.vchPubKeyA, "OP_CHECKSIG">>] >>
            /\ txRefundB.vout = << [nValue |-> session.nBetAmount,
                                    scriptPubKey |-> <<session.vchPubKeyB, "OP_CHECKSIG">>] >>
            /\ \A vchPubKeyWinner \in {session.vchPubKeyA, session.vchPubKeyB} :
                  LET txSettle == CreateSettlementTransaction(session, vchPubKeyWinner)
                  IN  /\ txSettle.nLockTime = 0
                      /\ Len(txSettle.vout) = 1
                      /\ txSettle.vout[1].scriptPubKey = <<vchPubKeyWinner, "OP_CHECKSIG">>
                      /\ ~I64DoubleOverflows(session.nBetAmount)
                      /\ Wide(txSettle.vout[1].nValue)
                             = WideSum(txRefundA.vout[1].nValue, txRefundB.vout[1].nValue)

\* C26: a successful AcceptGameAccept removes the challenge it names and
\* creates a session in state OPEN with an empty log, the game type and the
\* stake of the challenge, seat A the proposer's key, seat B the acceptor's
\* key, stored under hash(challenge hash, key A, key B); an accept with the
\* proposer's own key is rejected, so the two keys of every session differ.
C26_AcceptCreatesSession ==
    [][call'.op = "AcceptGameAccept" =>
          LET hashChallenge == call'.hashChallenge
              vchPubKey == delivery'.vchPubKey
          IN  /\ call'.ret =>
                    /\ hashChallenge \in DOMAIN mapGameChallenges
                    /\ hashChallenge \notin DOMAIN mapGameChallenges'
                    /\ LET challenge == mapGameChallenges[hashChallenge]
                           hashSession == <<hashChallenge, challenge.vchPubKey, vchPubKey>>
                       IN  /\ hashSession \in DOMAIN mapGameSessions'
                           /\ LET session == mapGameSessions'[hashSession]
                              IN  /\ session.nState = GSTATE_OPEN
                                  /\ session.vMoves = <<>>
                                  /\ session.nGameType = challenge.nGameType
                                  /\ session.nBetAmount = challenge.nBetAmount
                                  /\ session.vchPubKeyA = challenge.vchPubKey
                                  /\ session.vchPubKeyB = vchPubKey
                                  /\ session.hashChallenge = hashChallenge
                                  /\ SessionGetHash(session) = hashSession
                           /\ \A h \in (DOMAIN mapGameSessions') \ {hashSession} :
                                 /\ h \in DOMAIN mapGameSessions
                                 /\ mapGameSessions'[h] = mapGameSessions[h]
              /\ (/\ hashChallenge \in DOMAIN mapGameChallenges
                  /\ vchPubKey = mapGameChallenges[hashChallenge].vchPubKey)
                 => ~call'.ret
              /\ \A h \in DOMAIN mapGameSessions' :
                    mapGameSessions'[h].vchPubKeyA # mapGameSessions'[h].vchPubKeyB
    ]_vars

\* C26 happens: kB's accept of kA's stored challenge succeeded; the challenge
\* is gone and the session of kA and kB is held
C26_Witness ==
    /\ call.op = "AcceptGameAccept"
    /\ call.ret
    /\ delivery.vchPubKey = "kB"
    /\ call.hashChallenge \notin DOMAIN mapGameChallenges
    /\ <<call.hashChallenge, "kA", "kB">> \in DOMAIN mapGameSessions

(***************************************************************************)
(* Properties of promotion and of move enumeration.                        *)
(***************************************************************************)
\* C27: MakeMove accepts a move with a promotion piece if and only if the
\* piece that moves is a pawn arriving on its far rank, and the piece is
\* then a knight, a bishop, a rook or a queen; a text that carries a
\* promotion letter for any other move is rejected.  (A text without a
\* letter for a pawn arriving on its far rank stands for the queen.)
C27_PromotionOnlyOnFarRank ==
    [][(mcall'.op = "MakeMove" /\ mcall'.ret) =>
          LET m == ParseMoveString(mcall'.strMove)
              fPromotes ==
                  /\ PieceType(chessBoard.board[m.from]) = PIECE_PAWN
                  /\ RankOf(m.to) = (IF chessBoard.fWhiteToMove THEN 7 ELSE 0)
          IN  /\ Len(mcall'.strMove) = 5 => fPromotes
              /\ fPromotes =>
                    /\ PieceType(chessBoard'.board[m.to])
                           \in {PIECE_KNIGHT, PIECE_BISHOP, PIECE_ROOK, PIECE_QUEEN}
                    /\ Len(mcall'.strMove) = 5
                           => PieceType(chessBoard'.board[m.to]) = m.promoType
    ]_vars

\* the moves <<from, to, promoType>> that the legality check accepts, over
\* every pair of squares and every promotion piece a move text can name
AcceptedMoves(b) ==
    { m \in (0..63) \X (0..63) \X ({PIECE_EMPTY} \cup promos) :
        IsLegalMoveInternal(b, m[1], m[2], m[3]) }

\* C28: in every position reached, GetLegalMoves returns exactly the moves
\* (from, to, promotion) that the legality check accepts for the side to
\* move: MakeMove accepts the text of every move returned, every move
\* accepted is returned, and checkmate or stalemate is reported exactly
\* when no move is accepted.
C28_EnumerationIsLegality ==
    LET vMoves == GetLegalMoves(chessBoard)
        accepted == AcceptedMoves(chessBoard)
    IN  /\ \A m \in vMoves : MakeMove(chessBoard, MoveText(m)).ret
        /\ \A m \in accepted : m \in vMoves
        /\ (IsCheckmate(chessBoard) \/ IsStalemate(chessBoard)) <=> accepted = {}

(***************************************************************************)
(* Properties of folding and betting.                                      *)
(***************************************************************************)
\* C29: a fold is accepted only in POKER_BET1 or POKER_BET2; it moves the
\* game to POKER_DONE at once, and DetermineWinner then returns the other
\* seat whatever the hands and the pot are; at most one seat is ever marked
\* folded.
C29_FoldEndsTheHand ==
    [][(pcall'.op = "ProcessAction" /\ pcall'.action = PACT_FOLD) =>
          /\ pcall'.ret => game.nPhase \in {POKER_BET1, POKER_BET2}
          /\ pcall'.ret =>
                /\ game'.nPhase = POKER_DONE
                /\ DetermineWinner(game') = (IF pcall'.fPlayerA THEN 2 ELSE 1)
          /\ ~pcall'.ret => game' = game
          /\ ~(game'.fPlayerAFolded /\ game'.fPlayerBFolded)
    ]_vars

\* C29 happens: seat B folded in the second betting round with chips in the
\* pot, and seat A is the winner
C29_Witness ==
    /\ pcall.op = "ProcessAction"
    /\ pcall.action = PACT_FOLD
    /\ pcall.ret
    /\ ~pcall.fPlayerA
    /\ game.fPlayerBFolded
    /\ game.nPot > 0
    /\ game.nDrawCardIndex > 2 * HAND_SIZE
    /\ DetermineWinner(game) = 1

\* C30: in POKER_BET1 and POKER_BET2 a check is rejected whenever a bet is
\* outstanding (nCurrentBet > 0), a call is rejected when none is, and a
\* raise is rejected for an amount of zero or below; a rejected action
\* leaves the pot, the outstanding bet, the acted flags and the phase as
\* they were.
C30_BettingRejections ==
    [][(/\ pcall'.op = "ProcessAction"
        /\ game.nPhase \in {POKER_BET1, POKER_BET2}
        /\ pcall'.action \in {PACT_CHECK, PACT_CALL, PACT_RAISE})
       => /\ (pcall'.action = PACT_CHECK /\ game.nCurrentBet > 0) => ~pcall'.ret
          /\ (pcall'.action = PACT_CALL /\ ~(game.nCurrentBet > 0)) => ~pcall'.ret
          /\ (pcall'.action = PACT_RAISE /\ pcall'.nAmount <= 0) => ~pcall'.ret
          /\ ~pcall'.ret =>
                /\ game'.nPot = game.nPot
                /\ game'.nCurrentBet = game.nCurrentBet
                /\ game'.fPlayerAActed = game.fPlayerAActed
                /\ game'.fPlayerBActed = game.fPlayerBActed
                /\ game'.nPhase = game.nPhase
    ]_vars

\* C30 happens: in the second betting round, after a raise, a check was
\* rejected and the bet is still outstanding
C30_Witness ==
    /\ pcall.op = "ProcessAction"
    /\ pcall.action = PACT_CHECK
    /\ ~pcall.ret
    /\ game.nPhase = POKER_BET2
    /\ game.nCurrentBet > 0
    /\ game.nPot > 0

(***************************************************************************)
(* Properties of the betting rounds, of the draw and of the seeds.         *)
(***************************************************************************)
\* the acted flag of a seat
ActedFlag(g, fPlayerA) == IF fPlayerA THEN g.fPlayerAActed ELSE g.fPlayerBActed

\* a step that takes a betting round to the phase after it
RoundAdvances ==
    \/ game.nPhase = POKER_BET1 /\ game'.nPhase = POKER_DRAW
    \/ game.nPhase = POKER_BET2 /\ game'.nPhase = POKER_SHOWDOWN

\* C31: a betting round advances (bet1 to draw, bet2 to showdown) exactly
\* when both seats have acted since the most recent raise and no bet is
\* outstanding.  The acted flag of a seat is set only by an accepted check,
\* call or raise of that seat, and an accepted raise clears the flag of the
\* other seat, so after a raise the round cannot advance before the other
\* seat has acted; the round advances on exactly the accepted check or call
\* that finds the flag of the other seat set, and it leaves no bet
\* outstanding; in the draw and showdown phases the outstanding bet is zero.
C31_RoundAdvancesWhenBothActed ==
    [][(pcall'.op = "ProcessAction" /\ game.nPhase \in {POKER_BET1, POKER_BET2})
       => /\ \A seat \in BOOLEAN :
                (~ActedFlag(game, seat) /\ ActedFlag(game', seat))
                    => /\ pcall'.fPlayerA = seat
                       /\ pcall'.ret
                       /\ pcall'.action \in {PACT_CHECK, PACT_CALL, PACT_RAISE}
          /\ (pcall'.action = PACT_RAISE /\ pcall'.ret)
                => /\ ~ActedFlag(game', ~pcall'.fPlayerA)
                   /\ ~RoundAdvances
          /\ RoundAdvances
                <=> /\ pcall'.ret
                    /\ pcall'.action \in {PACT_CHECK, PACT_CALL}
                    /\ ActedFlag(game, ~pcall'.fPlayerA)
          /\ RoundAdvances => game'.nCurrentBet = 0
          /\ game'.nPhase \in {POKER_DRAW, POKER_SHOWDOWN} => game'.nCurrentBet = 0
          /\ game'.nPhase \in {POKER_BET1, POKER_BET2}
                => ~(game'.fPlayerAActed /\ game'.fPlayerBActed)
    ]_vars

\* C31 happens: the first betting round went to the draw on the call that
\* answered a raise
C31_Witness ==
    /\ pcall.op = "ProcessAction"
    /\ pcall.action = PACT_CALL
    /\ pcall.ret
    /\ game.nPhase = POKER_DRAW
    /\ game.nPot > 0
    /\ game.nCurrentBet = 0

\* the hand of a seat
HandOf(g, fPlayerA) == IF fPlayerA THEN g.handA ELSE g.handB

\* the slots a discard text names: the indices from 0 to 4 that the loop of
\* PACT_DISCARD reads from it, each once
NamedSlots(strExtra) ==
    LET vDiscard == ReadDiscards(strExtra, 1, <<>>)
    IN  { vDiscard[n] : n \in 1..Len(vDiscard) }

C34_SeedsBoundBeforeReveal ==
    [][pcall'.op = "ProcessAction"
       => /\ (game.hashSeedA # 0 /\ game.hashSeedB # 0)
                => /\ game'.hashSeedA = game.hashSeedA
                   /\ game'.hashSeedB = game.hashSeedB
          /\ game.fSeedBRevealed
                => /\ game'.hashSeedA = game.hashSeedA
                   /\ game.fSeedARevealed => game'.seedA = game.seedA
          /\ game.fSeedARevealed
                => /\ game'.hashSeedB = game.hashSeedB
                   /\ game.fSeedBRevealed => game'.seedB = game.seedB
          /\ (game.fSeedARevealed /\ ~game'.fSeedARevealed) = FALSE
          /\ (game.fSeedBRevealed /\ ~game'.fSeedBRevealed) = FALSE
          /\ (game.nPhase = POKER_REVEAL /\ game'.nPhase # POKER_REVEAL)
                => /\ game'.nPhase = POKER_BET1
                   /\ game'.fSeedARevealed /\ game'.fSeedBRevealed
                   /\ Hash(game'.seedA) = game.hashSeedA
                   /\ Hash(game'.seedB) = game.hashSeedB
                   /\ game'.deck = FisherYates([i \in 0..(DECK_SIZE - 1) |-> i],
                                               HashConcat(game'.seedA, game'.seedB),
                                               DECK_SIZE - 1)
          /\ game'.deck # game.deck
                => game.nPhase = POKER_REVEAL /\ game'.nPhase = POKER_BET1
    ]_vars

\* C34 happens: the cards were dealt on the second reveal, from two
\* different seeds that open two different commitments
C34_Witness ==
    /\ pcall.op = "ProcessAction"
    /\ pcall.action = PACT_REVEAL_SEED
    /\ pcall.ret
    /\ game.nPhase = POKER_BET1
    /\ game.seedA # game.seedB
    /\ Hash(game.seedA) = game.hashSeedA
    /\ Hash(game.seedB) = game.hashSeedB

(***************************************************************************)
(* Properties of the en-passant target and of the castling rights.         *)
(***************************************************************************)
\* C35: after every move applied, the en-passant target is set if and only
\* if the move was a two-square pawn push, and then it is the square the
\* pawn passed over; after every other move it is none.  A pawn that goes
\* diagonally to an empty square (an en-passant capture) goes to the
\* target, which the move just before set by its double push, and the
\* capture removes exactly the pawn that stands beyond the target, the one
\* that made the push: every square but the two of the move and that
\* pawn's is left as it was.
C35_EnPassantAfterDoublePush ==
    [][(mcall'.op = "MakeMove" /\ mcall'.ret) =>
          \A m \in {ParseMoveString(mcall'.strMove)} :
              LET piece == chessBoard.board[m.from]
                  white == chessBoard.fWhiteToMove
                  fPawn == PieceType(piece) = PIECE_PAWN
                  fDouble == fPawn /\ Abs(m.to - m.from) = 16
                  fEnPassant == /\ fPawn
                                /\ FileOf(m.to) # FileOf(m.from)
                                /\ chessBoard.board[m.to] = PIECE_EMPTY
                  pushed == IF white THEN m.to - 8 ELSE m.to + 8
                  origin == IF white THEN m.to + 8 ELSE m.to - 8
                  enemyPawn == (IF white THEN COLOR_BLACK ELSE COLOR_WHITE) + PIECE_PAWN
              IN  /\ (chessBoard'.nEnPassantSquare # -1) <=> fDouble
                  /\ fDouble =>
                        /\ 2 * chessBoard'.nEnPassantSquare = m.from + m.to
                        /\ chessBoard'.board[chessBoard'.nEnPassantSquare] = PIECE_EMPTY
                        /\ chessBoard'.board[m.to] = piece
                  /\ fEnPassant =>
                        /\ m.to = chessBoard.nEnPassantSquare
                        /\ chessBoard.board[pushed] = enemyPawn
                        /\ chessBoard.board[origin] = PIECE_EMPTY
                        /\ chessBoard'.board =
                               [chessBoard.board EXCEPT ![m.from] = PIECE_EMPTY,
                                                        ![pushed] = PIECE_EMPTY,
                                                        ![m.to] = piece]
    ]_vars

\* C35 happens: the white pawn on e5 took the black d-pawn en passant on
\* d6, right after d7d5
C35_Witness ==
    /\ mcall.op = "MakeMove"
    /\ mcall.ret
    /\ mcall.strMove = <<"e","5","d","6">>
    /\ chessBoard.board[43] = COLOR_WHITE + PIECE_PAWN
    /\ chessBoard.board[35] = PIECE_EMPTY
    /\ chessBoard.board[36] = PIECE_EMPTY
    /\ chessBoard.nEnPassantSquare = -1

(***************************************************************************)
(* Properties of concurrent calls and of sending.                          *)
(***************************************************************************)
\* one public operation run alone on the tables T: its return value and
\* the tables it leaves (AcceptGameChallenge 28-54, AcceptGameAccept 58-97,
\* ProcessGameMove 101-135, ProcessGameSettle 139-171)
SerialCall(T, k) ==
    LET Result(ok, tables) == [ret |-> ok, tables |-> IF ok THEN tables ELSE T]
    IN  CASE k.op = "AcceptGameChallenge" ->
               Result(/\ ChallengeGetHash(k.msg) \notin DOMAIN T.challenges
                      /\ ChallengeValid(k.msg),
                      Tables(MapPut(T.challenges, ChallengeGetHash(k.msg), k.msg),
                             T.sessions))
          [] k.op = "AcceptGameAccept" ->
               LET known == k.msg.hashChallenge \in DOMAIN T.challenges
                   session == NewSession(T.challenges[k.msg.hashChallenge],
                                         k.msg, nBestHeight)
               IN  Result(/\ known
                          /\ AcceptCheckSignature(k.msg)
                          /\ k.msg.vchPubKey # T.challenges[k.msg.hashChallenge].vchPubKey,
                          Tables(MapErase(T.challenges, k.msg.hashChallenge),
                                 MapPut(T.sessions, SessionGetHash(session), session)))
          [] k.op = "ProcessGameMove" ->
               Result(/\ k.msg.hashSession \in DOMAIN T.sessions
                      /\ MoveCheckSignature(k.msg)
                      /\ MoveFromPlayer(T.sessions[k.msg.hashSession], k.msg)
                      /\ MoveNumberExpected(T.sessions[k.msg.hashSession], k.msg),
                      Tables(T.challenges,
                             [T.sessions EXCEPT
                                 ![k.msg.hashSession] = StoreMove(@, k.msg)]))
          [] k.op = "ProcessGameSettle" ->
               Result(/\ k.msg.hashSession \in DOMAIN T.sessions
                      /\ CheckTransaction(k.msg.txSettle)
                      /\ IntakePasses(k.outcome),
                      Tables(T.challenges,
                             [T.sessions EXCEPT
                                 ![k.msg.hashSession] = MarkSettled(@)]))

\* the calls first then second, one after the other from the tables the
\* threads began with, return what the threads returned and leave the
\* tables as they are now
SerialOrder(first, second) ==
    LET r1 == SerialCall(base, first)
        r2 == SerialCall(r1.tables, second)
    IN  /\ r1.ret = first.ret
        /\ r2.ret = second.ret
        /\ r2.tables = Tables(mapGameChallenges, mapGameSessions)

\* C36: the public operations are atomic with respect to each other.  At
\* most one thread is inside the block; when both threads have returned,
\* the tables and the return values are those of one of the two serial
\* orders of the two calls; two concurrent accepts of one stored challenge
\* by others than its proposer create exactly one session (one returns
\* true, one false); and two concurrent moves of the players with the
\* same number for one session append exactly one move when that number is
\* the log length, and none otherwise.
C36_CallsAreSerializable ==
    LET k1 == thr["t1"]
        k2 == thr["t2"]
        inside == { t \in Threads : thr[t].pc \in {"check", "write", "leave"} }
    IN  /\ Cardinality(inside) <= 1
        /\ inside = (IF csHolder = "none" THEN {} ELSE {csHolder})
        /\ (k1.pc = "done" /\ k2.pc = "done") =>
              /\ SerialOrder(k1, k2) \/ SerialOrder(k2, k1)
              /\ (/\ k1.op = "AcceptGameAccept" /\ k2.op = "AcceptGameAccept"
                  /\ k1.msg.hashChallenge = k2.msg.hashChallenge
                  /\ k1.msg.hashChallenge \in DOMAIN base.challenges
                  /\ \A k \in {k1, k2} :
                        k.msg.vchPubKey # base.challenges[k.msg.hashChallenge].vchPubKey)
                    => /\ k1.ret # k2.ret
                       /\ Cardinality(DOMAIN mapGameSessions)
                              <= Cardinality(DOMAIN base.sessions) + 1
                       /\ k1.msg.hashChallenge \notin DOMAIN mapGameChallenges
              /\ (/\ k1.op = "ProcessGameMove" /\ k2.op = "ProcessGameMove"
                  /\ k1.msg.hashSession = k2.msg.hashSession
                  /\ k1.msg.nMoveNumber = k2.msg.nMoveNumber
                  /\ \A k \in {k1, k2} :
                        MoveFromPlayer(base.sessions[k.msg.hashSession], k.msg))
                    => LET before == base.sessions[k1.msg.hashSession].vMoves
                           after == mapGameSessions[k1.msg.hashSession].vMoves
                       IN  IF k1.msg.nMoveNumber = Len(before)
                           THEN /\ k1.ret # k2.ret
                                /\ Len(after) = Len(before) + 1
                                /\ IsPrefix(before, after)
                           ELSE ~k1.ret /\ ~k2.ret /\ after = before

\* C36 happens: two threads accepted one challenge for two different
\* keys at the same time; one call created the session and the other
\* returned false
C36_Witness ==
    /\ thr["t1"].pc = "done" /\ thr["t2"].pc = "done"
    /\ thr["t1"].op = "AcceptGameAccept" /\ thr["t2"].op = "AcceptGameAccept"
    /\ thr["t1"].msg.vchPubKey = "kB" /\ thr["t2"].msg.vchPubKey = "kC"
    /\ thr["t2"].ret /\ ~thr["t1"].ret
    /\ DOMAIN base.challenges # {}
    /\ DOMAIN mapGameSessions # DOMAIN base.sessions

\* C37: SendGameAccept and SendGameMove transmit only what the local
\* AcceptGameAccept or ProcessGameMove accepted: SendGameAccept goes on to
\* its push statement with a peer to push to, and SendGameMove to its push
\* statement with an opponent connected, only when the local call returned
\* true.
C37_PushOnlyWhenAccepted ==
    [][/\ (/\ sendPc = "idle"
           /\ sendPc' = "SendGameAccept:push"
           /\ sendArg'.pnode # NULL)
          => (call'.op = "AcceptGameAccept" /\ call'.ret)
       /\ (/\ sendPc = "idle"
           /\ sendPc' = "SendGameMove:push"
           /\ mapGameSessions'[sendArg'.hashSession].pnodeOpponent # NULL)
          => (call'.op = "ProcessGameMove" /\ call'.ret)
    ]_vars

\* C38: in every position reached by accepted moves, a castling right that
\* is still set has its king and its rook on their original squares (e1
\* with h1 or a1, e8 with h8 or a8), and a right that is cleared is never
\* set again.
C38_CastlingRightsNeedHomeSquares ==
    [][mcall'.op = "MakeMove" =>
          LET b == chessBoard'
              Home(white, rookSq) ==
                  /\ b.board[IF white THEN 4 ELSE 60] =
                         (IF white THEN COLOR_WHITE ELSE COLOR_BLACK) + PIECE_KING
                  /\ b.board[rookSq] =
                         (IF white THEN COLOR_WHITE ELSE COLOR_BLACK) + PIECE_ROOK
          IN  /\ b.fCastleWK => Home(TRUE, 7)
              /\ b.fCastleWQ => Home(TRUE, 0)
              /\ b.fCastleBK => Home(FALSE, 63)
              /\ b.fCastleBQ => Home(FALSE, 56)
              /\ b.fCastleWK => chessBoard.fCastleWK
              /\ b.fCastleWQ => chessBoard.fCastleWQ
              /\ b.fCastleBK => chessBoard.fCastleBK
              /\ b.fCastleBQ => chessBoard.fCastleBQ
    ]_vars

\* C38 happens: the black bishop took the rook on h1, white lost the short
\* castling right and kept the long one
C38_Witness ==
    /\ mcall.op = "MakeMove"
    /\ mcall.ret
    /\ mcall.strMove = <<"b","7","h","1">>
    /\ chessBoard.board[7] = COLOR_BLACK + PIECE_BISHOP
    /\ ~chessBoard.fCastleWK
    /\ chessBoard.fCastleWQ

\* the cards a game holds in its two hands
CardsHeld(g) ==
    { g.handA.cards[i] : i \in 0..(HAND_SIZE - 1) } \cup
    { g.handB.cards[i] : i \in 0..(HAND_SIZE - 1) }

\* C39: the deck is a permutation of the 52 cards after every step, the
\* step that deals gives seat A the deck positions 0-4 and seat B the
\* positions 5-9 and puts the cursor at 10, and from then on, whatever the
\* seats discard, the ten cards of the two hands are pairwise distinct and
\* the cursor lies in 10..52.
C39_DeckAndHandsStayDistinct ==
    [][pcall'.op = "ProcessAction" =>
          /\ { game'.deck[i] : i \in 0..(DECK_SIZE - 1) } = 0..(DECK_SIZE - 1)
          /\ game'.nDrawCardIndex \in (2 * HAND_SIZE)..DECK_SIZE
          /\ (game.nPhase = POKER_REVEAL /\ game'.nPhase = POKER_BET1)
                => /\ \A i \in 0..(HAND_SIZE - 1) :
                         /\ game'.handA.cards[i] = game'.deck[i]
                         /\ game'.handB.cards[i] = game'.deck[i + HAND_SIZE]
                   /\ game'.handA.nCount = HAND_SIZE
                   /\ game'.handB.nCount = HAND_SIZE
                   /\ game'.nDrawCardIndex = 2 * HAND_SIZE
          /\ game'.nPhase \in {POKER_BET1, POKER_DRAW, POKER_BET2,
                               POKER_SHOWDOWN, POKER_DONE}
                => /\ Cardinality(CardsHeld(game')) = 2 * HAND_SIZE
                   /\ CardsHeld(game') \subseteq
                          { game'.deck[i] : i \in 0..(game'.nDrawCardIndex - 1) }
    ]_vars

\* C39 happens: both seats have discarded after the deal of a shuffled
\* deck, and the cursor has passed the twentieth card
C39_Witness ==
    /\ pcall.op = "ProcessAction"
    /\ pcall.action = PACT_DISCARD
    /\ pcall.ret
    /\ game.deck # [i \in 0..(DECK_SIZE - 1) |-> i]
    /\ \E i \in 0..(HAND_SIZE - 1) : game.vDiscardA[i]
    /\ \E i \in 0..(HAND_SIZE - 1) : game.vDiscardB[i]
    /\ game.nDrawCardIndex > 4 * HAND_SIZE

(***************************************************************************)
(* Properties of the finished game.                                        *)
(***************************************************************************)
\* C40: done is absorbing.  Once the phase is done, every call of
\* ProcessAction, by either seat and with any action, returns false and
\* leaves every field of the game as it was, so DetermineWinner reports the
\* same result after it as before.
C40_DoneIsAbsorbing ==
    [][(pcall'.op = "ProcessAction" /\ game.nPhase = POKER_DONE)
       => /\ ~pcall'.ret
          /\ game' = game
          /\ DetermineWinner(game') = DetermineWinner(game)
    ]_vars

\* C40 happens: the game ended at the showdown with nobody folded, and a
\* show of the hand that came after it was rejected
C40_Witness ==
    /\ game.nPhase = POKER_DONE
    /\ ~game.fPlayerAFolded
    /\ ~game.fPlayerBFolded
    /\ pcall.op = "ProcessAction"
    /\ pcall.action = PACT_SHOW_HAND
    /\ ~pcall.ret

====
